---------------------------- MODULE Spec2Model ----------------------------
(***************************************************************************)
(* A model of the Nuxeo Drive synchronizer (nxdrive/synchronizer.py): the  *)
(* pair-state table, the local and remote scanners, the incremental        *)
(* change application, the resolver handlers, one pass of                  *)
(* update_synchronize_server and the PID lock of loop().                   *)
(*                                                                         *)
(* Paths are sequences of names (<<>> is "/"), remote refs, digests and    *)
(* names are strings, dates are integers of one logical clock.  An absent  *)
(* value (Python None) is the sentinel of its type: NoPath, NoRef, NoName, *)
(* NoDigest, NoTime.                                                       *)
(***************************************************************************)
EXTENDS Integers, Sequences, FiniteSets, TLC

VARIABLES
    lfs,        \* local tree: path -> [folderish, digest, mtime]
    rfs,        \* remote tree: ref -> [parent, name, folderish, digest, mtime, ...]
    rlog,       \* remote audit log: sequence of [eventDate, ref, deleted]
    now,        \* logical clock: stamps local mtimes and remote events
    db,         \* LastKnownState table: sequence of pair rows, in rowid order
    dirty,      \* TRUE while the session holds uncommitted writes
    binding,    \* ServerBinding row: [exists, last_sync_date, last_root_definitions]
    pc,         \* position inside update_synchronize_server
    pass,       \* locals of the current pass
    summary,    \* sorted changes still to apply in _update_remote_states
    refreshed,  \* the refs already handled by _update_remote_states
    hist,       \* observations of the pass, read by the properties only
    pidfile,    \* content of nxdrive_sync.pid: a pid, or NoPid
    proc,       \* per process: its position inside loop()
    alive,      \* the pids psutil reports as running nxdrive programs
    stopfile    \* the pids p whose stop file stop_<p> exists

vars == <<lfs, rfs, rlog, now, db, dirty, binding, pc, pass, summary,
          refreshed, hist, pidfile, proc, alive, stopfile>>

syncVars == <<lfs, rfs, rlog, now, db, dirty, binding, pc, pass, summary,
              refreshed, hist>>

lockVars == <<pidfile, proc, alive, stopfile>>

---------------------------------------------------------------------------
(* Bounds of the model.                                                    *)

\* Number of external changes (user edits, server-side edits) in one run.
MaxClock == 2

\* Depth of the local and remote trees below the root.
MaxDepth == 2

\* The max_sync_step argument given to loop(): pairs resolved per pass.
MaxSyncStep == 2

\* Number of processes that call loop() on one configuration folder.
MaxProcs == 3

\* Passes in a row, without external change or failure, that are counted.
MaxCalm == 12

\* max_loops, the argument of loop().
MaxLoops == 1

\* Length of the list of candidates given to the re-ranking.
MaxCandidates == 3

---------------------------------------------------------------------------
(* Value universe.                                                         *)

NoPath == <<"-">>
NoRef == "-"
NoName == "-"
NoDigest == "-"
NoTime == -1

Root == <<>>
RootRef == "r0"
RootName == "root"

\* Names a user or the server gives to a node.
PlainNames == {"a", "b"}

\* Names the local client makes up to avoid a clash (name__1), and the
\* names the server suggests for the local copy of a conflicted file.
Names == PlainNames \cup {"a__1", "b__1", "a_conflict", "b_conflict"}

Digests == {"d1", "d2"}

\* The refs the server gives, in the order it gives them: two for the
\* documents of the initial tree, and for each later change one for the
\* document it creates and one for the upload that answers it.
RefPool == <<"r1", "r2", "r3", "r4", "r5", "r6", "r7", "r8", "r9", "r10",
             "r11", "r12">>

Refs == {RefPool[k] : k \in 1..(2 * MaxClock + 2)}

LocalStates == {"unknown", "created", "modified", "deleted", "synchronized"}


PairStates == {"unknown", "synchronized", "locally_created", "remotely_created",
               "locally_modified", "remotely_modified", "locally_deleted",
               "remotely_deleted", "deleted", "conflicted"}

\* The order in which a directory listing and a children query enumerate.
NameOrder == <<"a", "a__1", "a_conflict", "b", "b__1", "b_conflict">>

RefOrder == <<RootRef>> \o RefPool

---------------------------------------------------------------------------
(* Generic helpers.                                                        *)

Max(S) == CHOOSE x \in S : \A y \in S : y <= x

Min(S) == CHOOSE x \in S : \A y \in S : x <= y

RECURSIVE SortedSeq(_)
SortedSeq(S) == IF S = {} THEN <<>> ELSE <<Min(S)>> \o SortedSeq(S \ {Min(S)})

Range(s) == {s[k] : k \in 1..Len(s)}

\* The position of x in the sequence s (0 when absent).
PosIn(s, x) == IF \E k \in 1..Len(s) : s[k] = x
               THEN Min({k \in 1..Len(s) : s[k] = x}) ELSE 0

\* The members of set S, in the order of the sequence ord.
InOrder(S, ord) == SelectSeq(ord, LAMBDA x : x \in S)

Front(p) == SubSeq(p, 1, Len(p) - 1)

Last(p) == p[Len(p)]

IsPrefix(p, q) == Len(p) <= Len(q) /\ SubSeq(q, 1, Len(p)) = p

---------------------------------------------------------------------------
(* Names: DEDUPED_BASENAME_PATTERN and name_match.                         *)

\* re.match(DEDUPED_BASENAME_PATTERN, base): the name is <short>__<digits>.
IsDeduped(n) == n \in {"a__1", "b__1"}

\* The first group of the match: the name without its increment.
DedupedBase(n) == CASE n = "a__1" -> "a"
                    [] n = "b__1" -> "b"
                    [] OTHER -> n

\* The name the local client tries after a clash: <short>__<increment + 1>.
NextDeduped(n) == CASE n = "a" -> "a__1"
                    [] n = "b" -> "b__1"
                    [] OTHER -> NoName

\* RemoteFileSystemClient.conflicted_name(local_name)
ConflictedName(n) == CASE n = "a" -> "a_conflict"
                       [] n = "b" -> "b_conflict"
                       [] OTHER -> NoName

\* safe_filename: replaces the characters a file name cannot hold.  No name
\* of the universe holds one.
SafeFilename(n) == IF n \in Names \cup {RootName} THEN n ELSE NoName

name_match(local_name, remote_name) ==
    LET remote == SafeFilename(remote_name)
        local_base == IF IsDeduped(local_name) THEN DedupedBase(local_name)
                      ELSE local_name
    IN  local_base = remote

---------------------------------------------------------------------------
(* jaccard_index, as the pair <<numerator, denominator>>.                  *)

jaccard_index(set_1, set_2) ==
    IF Cardinality(set_1) = 0 /\ Cardinality(set_2) = 0
    THEN <<1, 1>>
    ELSE <<Cardinality(set_1 \cap set_2), Cardinality(set_1 \cup set_2)>>

\* A pruning test that prunes nothing.
NothingPruned(j) == FALSE

JaccardIsZero(j) == j[1] = 0

JaccardLess(j, k) == j[1] * k[2] < k[1] * j[2]

---------------------------------------------------------------------------
(* The local client: a view of the local tree lfs.                         *)

NoLocalInfo == [exists |-> FALSE, path |-> NoPath, folderish |-> FALSE,
                digest |-> NoDigest, mtime |-> NoTime]

\* LocalClient.get_info(path, raise_if_missing=False)
LocalGetInfo(fs, path) ==
    IF path \in DOMAIN fs
    THEN [exists |-> TRUE, path |-> path, folderish |-> fs[path].folderish,
          digest |-> fs[path].digest, mtime |-> fs[path].mtime]
    ELSE NoLocalInfo

LocalChildPaths(fs, path) ==
    {c \in DOMAIN fs : Len(c) = Len(path) + 1 /\ Front(c) = path}

\* LocalClient.get_children_info(path): the children, in listing order.
LocalGetChildrenInfo(fs, path) ==
    LET names == InOrder({Last(c) : c \in LocalChildPaths(fs, path)}, NameOrder)
    IN  [k \in 1..Len(names) |-> LocalGetInfo(fs, Append(path, names[k]))]

LocalFolders(fs) == {c \in DOMAIN fs : fs[c].folderish}

\* The paths of the subtree rooted at path.
LocalSubtree(fs, path) == {c \in DOMAIN fs : IsPrefix(path, c)}

\* LocalClient._abspath_deduped: the first free name among name, name__1.
LocalDedupedName(fs, parent, name) ==
    IF Append(parent, name) \notin DOMAIN fs THEN name
    ELSE IF NextDeduped(name) # NoName
            /\ Append(parent, NextDeduped(name)) \notin DOMAIN fs
         THEN NextDeduped(name)
         ELSE NoName

\* LocalClient.delete(path): removes the node and what is below it.
LocalDelete(fs, path) ==
    [c \in DOMAIN fs \ LocalSubtree(fs, path) |-> fs[c]]

\* A node written at path (make_folder, or a download renamed into place).
LocalPut(fs, path, folderish, digest, mtime) ==
    [c \in DOMAIN fs \cup {path} |->
        IF c = path
        THEN [folderish |-> folderish, digest |-> digest, mtime |-> mtime]
        ELSE fs[c]]

\* LocalClient.move / rename: the subtree at src is re-rooted at dst.
LocalRelocate(fs, src, dst) ==
    LET moved == LocalSubtree(fs, src)
        Target(c) == dst \o SubSeq(c, Len(src) + 1, Len(c))
        Source(c) == src \o SubSeq(c, Len(dst) + 1, Len(c))
    IN  [c \in (DOMAIN fs \ moved) \cup {Target(m) : m \in moved} |->
            IF IsPrefix(dst, c) /\ Source(c) \in moved
            THEN fs[Source(c)] ELSE fs[c]]

---------------------------------------------------------------------------
(* The remote client: a view of the remote tree rfs.                       *)

NoRemoteInfo == [exists |-> FALSE, uid |-> NoRef, parent_uid |-> NoRef,
                 name |-> NoName, folderish |-> FALSE, digest |-> NoDigest,
                 mtime |-> NoTime, can_delete |-> FALSE, can_rename |-> FALSE,
                 can_create_child |-> FALSE, path |-> <<>>]

\* The materialized path of a document: the refs from the root down to it.
RECURSIVE RemotePathOf(_, _)
RemotePathOf(r, ref) ==
    IF ref \notin DOMAIN r THEN <<>>
    ELSE Append(RemotePathOf(r, r[ref].parent), ref)

\* RemoteFileSystemClient.get_info(ref, raise_if_missing=False)
RemoteGetInfo(r, ref) ==
    IF ref \in DOMAIN r
    THEN [exists |-> TRUE, uid |-> ref, parent_uid |-> r[ref].parent,
          name |-> r[ref].name, folderish |-> r[ref].folderish,
          digest |-> r[ref].digest, mtime |-> r[ref].mtime,
          can_delete |-> r[ref].can_delete, can_rename |-> r[ref].can_rename,
          can_create_child |-> r[ref].can_create_child,
          path |-> RemotePathOf(r, ref)]
    ELSE NoRemoteInfo

RemoteChildRefs(r, ref) == {c \in DOMAIN r : r[c].parent = ref}

\* RemoteFileSystemClient.get_children_info(uid)
RemoteGetChildrenInfo(r, ref) ==
    LET refs == InOrder(RemoteChildRefs(r, ref), RefOrder)
    IN  [k \in 1..Len(refs) |-> RemoteGetInfo(r, refs[k])]

RECURSIVE RemoteSubtree(_, _)
RemoteSubtree(r, ref) ==
    {ref} \cup UNION {RemoteSubtree(r, c) : c \in RemoteChildRefs(r, ref)}

\* RemoteFileSystemClient.delete(ref)
RemoteDelete(r, ref) ==
    [c \in DOMAIN r \ RemoteSubtree(r, ref) |-> r[c]]

\* The ref the server gives to the next document it creates: one it never
\* gave before (used holds the refs already given).
FreshRef(used) == IF Refs \ used = {} THEN NoRef
                  ELSE RefOrder[Min({k \in 1..Len(RefOrder) :
                                        RefOrder[k] \in Refs \ used})]

RemotePut(r, ref, node) ==
    [c \in DOMAIN r \cup {ref} |-> IF c = ref THEN node ELSE r[c]]

---------------------------------------------------------------------------
(* LastKnownState: one row of the pair-state table.                        *)

\* PAIR_STATES: pair_state as a function of (local_state, remote_state).
PairStateOf(ls, rs) ==
    CASE ls = "unknown" /\ rs = "unknown" -> "unknown"
      [] ls = "synchronized" /\ rs = "synchronized" -> "synchronized"
      [] ls = "created" /\ rs = "unknown" -> "locally_created"
      [] ls = "unknown" /\ rs = "created" -> "remotely_created"
      [] ls = "modified" /\ rs = "synchronized" -> "locally_modified"
      [] ls = "synchronized" /\ rs = "modified" -> "remotely_modified"
      [] ls = "modified" /\ rs = "unknown" -> "locally_modified"
      [] ls = "unknown" /\ rs = "modified" -> "remotely_modified"
      [] ls = "deleted" /\ rs = "synchronized" -> "locally_deleted"
      [] ls = "synchronized" /\ rs = "deleted" -> "remotely_deleted"
      [] ls = "deleted" /\ rs = "deleted" -> "deleted"
      [] ls = "created" /\ rs = "deleted" -> "locally_created"
      [] ls = "deleted" /\ rs = "created" -> "remotely_created"
      [] ls = "modified" /\ rs = "deleted" -> "locally_created"
      [] ls = "deleted" /\ rs = "modified" -> "remotely_created"
      [] ls = "modified" /\ rs = "modified" -> "conflicted"
      [] ls = "created" /\ rs = "created" -> "conflicted"
      [] OTHER -> "unknown"

\* The argument of update_state that leaves a side as it is (None).
Keep == "-"

\* LastKnownState.update_state(local_state, remote_state)
update_state(p, local_state, remote_state) ==
    LET ls == IF local_state = Keep THEN p.local_state ELSE local_state
        rs == IF remote_state = Keep THEN p.remote_state ELSE remote_state
    IN  [p EXCEPT !.local_state = ls, !.remote_state = rs,
                  !.pair_state = PairStateOf(ls, rs)]

\* The value of a column that was never set (None), and the value a boolean
\* is stored as.
Unset == "None"

Stored(b) == IF b THEN "True" ELSE "False"

\* A row before any info is put in it.
BlankPair ==
    [local_path |-> NoPath, local_parent_path |-> NoPath,
     local_name |-> NoName, local_digest |-> NoDigest,
     last_local_updated |-> NoTime, folderish |-> FALSE,
     remote_ref |-> NoRef, remote_parent_ref |-> NoRef,
     remote_parent_path |-> <<>>, remote_name |-> NoName,
     remote_digest |-> NoDigest, last_remote_updated |-> NoTime,
     remote_can_create_child |-> Unset,
     local_state |-> "unknown", remote_state |-> "unknown",
     pair_state |-> "unknown", in_error |-> FALSE, dead |-> FALSE]

\* LastKnownState.update_local(local_info)
update_local(p, info) ==
    IF ~info.exists
    THEN IF p.local_state \in {"unknown", "created", "modified", "synchronized"}
         THEN update_state(p, "deleted", Keep)
         ELSE p
    ELSE
      LET p1 == IF p.local_path = NoPath \/ p.local_path # info.path
                THEN [p EXCEPT
                        !.local_path = info.path,
                        !.local_name = IF info.path = Root THEN RootName
                                       ELSE Last(info.path),
                        !.local_parent_path = IF info.path = Root THEN NoPath
                                              ELSE Front(info.path)]
                ELSE p
          first == p1.last_local_updated = NoTime
          newer == ~first /\ info.mtime > p1.last_local_updated
          update_digest == p1.local_digest = NoDigest \/ first \/ newer
          p2 == IF first \/ newer
                THEN [p1 EXCEPT !.last_local_updated = info.mtime,
                                !.folderish = info.folderish]
                ELSE p1
          p3 == IF update_digest THEN [p2 EXCEPT !.local_digest = info.digest]
                ELSE p2
          local_state == IF newer /\ ~info.folderish THEN "modified" ELSE Keep
      IN  update_state(p3, local_state, Keep)

\* update_remote raises ValueError when the row is bound to another document.
UpdateRemoteRaises(p, info) ==
    info.exists /\ p.remote_ref # NoRef /\ p.remote_ref # info.uid

\* LastKnownState.update_remote(remote_info)
update_remote(p, info) ==
    IF ~info.exists
    THEN IF p.remote_state \in {"unknown", "created", "modified", "synchronized"}
         THEN update_state(p, Keep, "deleted")
         ELSE p
    ELSE
      LET p1 == IF p.remote_ref = NoRef
                THEN [p EXCEPT !.remote_ref = info.uid,
                               !.remote_parent_ref = info.parent_uid]
                ELSE p
          first == p1.last_remote_updated = NoTime
          newer == ~first /\ (info.mtime > p1.last_remote_updated
                              \/ p1.remote_parent_ref # info.parent_uid)
          p2 == [p1 EXCEPT
                   !.last_remote_updated =
                       IF first \/ newer THEN info.mtime ELSE @,
                   !.remote_digest = info.digest,
                   !.folderish = info.folderish,
                   !.remote_name = info.name,
                   !.remote_parent_ref = info.parent_uid,
                   !.remote_parent_path = Front(info.path),
                   !.remote_can_create_child =
                       Stored(info.can_create_child)]
      IN  update_state(p2, Keep, IF newer THEN "modified" ELSE Keep)

\* LastKnownState.reset_local()
reset_local(p) ==
    [p EXCEPT !.local_path = NoPath, !.local_parent_path = NoPath,
              !.local_name = NoName, !.local_digest = NoDigest,
              !.last_local_updated = NoTime]

\* LastKnownState(local_folder, local_info=..., remote_info=...)
NewPair(local_info, remote_info) ==
    LET p1 == IF local_info.exists THEN update_local(BlankPair, local_info)
              ELSE BlankPair
        p2 == IF remote_info.exists THEN update_remote(p1, remote_info)
              ELSE p1
    IN  update_state(p2, "unknown", "unknown")

---------------------------------------------------------------------------
(* The session: queries and writes on the table.  A row deleted in the     *)
(* session is flagged dead (no query returns it) and leaves the table at   *)
(* the commit, so a row keeps its position while an operation runs.        *)

LiveIdx(d) == {i \in 1..Len(d) : ~d[i].dead}

\* session.query(LastKnownState).filter(Test).all(): positions in rowid order.
Query(d, Test(_)) == SortedSeq({i \in LiveIdx(d) : Test(d[i])})

\* session.query(LastKnownState).filter(Test).first(): a position, or 0.
QueryFirst(d, Test(_)) ==
    IF \E i \in LiveIdx(d) : Test(d[i])
    THEN Min({i \in LiveIdx(d) : Test(d[i])}) ELSE 0

\* session.delete(row)
SessionDelete(d, i) == [d EXCEPT ![i].dead = TRUE]

\* session.commit(): the deleted rows leave the table.
Commit(d) == SelectSeq(d, LAMBDA p : ~p.dead)

\* A recursion over the rows' parent links that meets a cycle never ends:
\* Python stops it with "maximum recursion depth exceeded".  The row below
\* marks a table on which this happened; nothing is done after it.
CrashRow == [BlankPair EXCEPT !.dead = TRUE, !.pair_state = "crash"]

Crashed(d) == Len(d) > 0 /\ d[Len(d)] = CrashRow

Crash(d) == IF Crashed(d) THEN d ELSE Append(d, CrashRow)

\* A recursion deeper than the number of rows has met a row twice.
TooDeep(d, depth) == depth > Len(d) + 1

---------------------------------------------------------------------------
(* find_first_name_match                                                   *)

\* The first of the possible pairs, whatever its names.
FirstPossiblePair(d, name, possible_pairs, k) ==
    IF k > Len(possible_pairs) THEN 0 ELSE possible_pairs[k]

RECURSIVE find_first_name_match(_, _, _, _)
find_first_name_match(d, name, possible_pairs, k) ==
    IF k > Len(possible_pairs) THEN 0
    ELSE LET pair == d[possible_pairs[k]]
         IN  IF pair.local_name # NoName /\ pair.remote_name # NoName
             THEN find_first_name_match(d, name, possible_pairs, k + 1)
             ELSE IF pair.local_name # NoName
                     /\ name_match(pair.local_name, name)
                  THEN possible_pairs[k]
                  ELSE IF pair.local_name = NoName
                          /\ pair.remote_name # NoName
                          /\ name_match(name, pair.remote_name)
                       THEN possible_pairs[k]
                       ELSE find_first_name_match(d, name, possible_pairs,
                                                  k + 1)

---------------------------------------------------------------------------
(* The local scanner.                                                      *)

\* A sweep that marks the pair and leaves the pairs below it.
MarkDeletedLocalOnly(d, i, depth) ==
    IF d[i].remote_ref = NoRef THEN SessionDelete(d, i)
    ELSE [d EXCEPT ![i] = update_local(@, NoLocalInfo)]

RECURSIVE mark_deleted_local_recursive(_, _, _)
RECURSIVE MarkDeletedLocalEach(_, _, _, _)

\* Synchronizer._mark_deleted_local_recursive
mark_deleted_local_recursive(d, i, depth) ==
    IF Crashed(d) THEN d
    ELSE IF TooDeep(d, depth) THEN Crash(d)
    ELSE
      LET children == Query(d, LAMBDA p :
                              p.local_parent_path = d[i].local_path)
          d1 == MarkDeletedLocalEach(d, children, 1, depth + 1)
      IN  IF Crashed(d1) THEN d1
          ELSE IF d1[i].remote_ref = NoRef
               THEN SessionDelete(d1, i)
               ELSE [d1 EXCEPT ![i] = update_local(@, NoLocalInfo)]

MarkDeletedLocalEach(d, rows, k, depth) ==
    IF k > Len(rows) \/ Crashed(d) THEN d
    ELSE MarkDeletedLocalEach(mark_deleted_local_recursive(d, rows[k], depth),
                              rows, k + 1, depth)

\* The possible_pairs of the local alignment, with or without the digest.
LocalAlignCandidates(d, parent_ref, folderish, with_digest, digest) ==
    Query(d, LAMBDA p : /\ p.local_path = NoPath
                        /\ p.remote_parent_ref = parent_ref
                        /\ p.folderish = folderish
                        /\ (with_digest => p.remote_digest = digest))

\* A local scan that finds no row for the children it meets.
LocalChildUnmatched(d, i, child_info) == 0

\* The pair a fresh local child is bound to: found by path, else aligned by
\* digest and name, else by name only; 0 when a new row has to be made.
LocalChildPair(d, i, child_info) ==
    LET child_name == Last(child_info.path)
        by_path == QueryFirst(d, LAMBDA p : p.local_path = child_info.path)
        by_digest ==
            IF by_path = 0 /\ ~child_info.folderish
            THEN find_first_name_match(d, child_name,
                     LocalAlignCandidates(d, d[i].remote_ref,
                         child_info.folderish, TRUE, child_info.digest), 1)
            ELSE by_path
    IN  IF by_digest # 0 THEN by_digest
        ELSE find_first_name_match(d, child_name,
                 LocalAlignCandidates(d, d[i].remote_ref,
                     child_info.folderish, FALSE, NoDigest), 1)

RECURSIVE scan_local_recursive(_, _, _, _)
RECURSIVE ScanLocalChildren(_, _, _, _, _)

\* Synchronizer._scan_local_recursive
scan_local_recursive(d, fs, i, local_info) ==
    LET d1 == [d EXCEPT ![i] = update_local(@, local_info)]
    IN  IF ~local_info.folderish THEN d1
        ELSE
          LET children_info == LocalGetChildrenInfo(fs, local_info.path)
              children_path == {children_info[k].path :
                                   k \in 1..Len(children_info)}
              not_selected == Query(d1, LAMBDA p :
                                  /\ p.local_parent_path = local_info.path
                                  /\ p.local_path \notin children_path)
              d2 == MarkDeletedLocalEach(d1, not_selected, 1, 1)
          IN  ScanLocalChildren(d2, fs, i, children_info, 1)

ScanLocalChildren(d, fs, i, children_info, k) ==
    IF k > Len(children_info) \/ Crashed(d) THEN d
    ELSE
      LET child_info == children_info[k]
          found == LocalChildPair(d, i, child_info)
          d1 == IF found = 0
                THEN Append(d, NewPair(child_info, NoRemoteInfo))
                ELSE d
          child_pair == IF found = 0 THEN Len(d1) ELSE found
      IN  ScanLocalChildren(scan_local_recursive(d1, fs, child_pair, child_info),
                            fs, i, children_info, k + 1)

---------------------------------------------------------------------------
(* The remote scanner.                                                     *)

RECURSIVE mark_deleted_remote_recursive(_, _, _)
RECURSIVE MarkDeletedRemoteEach(_, _, _, _)

\* Synchronizer._mark_deleted_remote_recursive
mark_deleted_remote_recursive(d, i, depth) ==
    IF Crashed(d) THEN d
    ELSE IF TooDeep(d, depth) THEN Crash(d)
    ELSE
      LET children == Query(d, LAMBDA p :
                              p.remote_parent_ref = d[i].remote_ref)
          d1 == MarkDeletedRemoteEach(d, children, 1, depth + 1)
      IN  IF Crashed(d1) THEN d1
          ELSE IF d1[i].local_path = NoPath
               THEN SessionDelete(d1, i)
               ELSE [d1 EXCEPT ![i] = update_remote(@, NoRemoteInfo)]

MarkDeletedRemoteEach(d, rows, k, depth) ==
    IF k > Len(rows) \/ Crashed(d) THEN d
    ELSE MarkDeletedRemoteEach(
             mark_deleted_remote_recursive(d, rows[k], depth),
             rows, k + 1, depth)

\* The possible_pairs of the remote alignment, with or without the digest.
RemoteAlignCandidates(d, parent_path, folderish, with_digest, digest) ==
    Query(d, LAMBDA p : /\ p.remote_ref = NoRef
                        /\ p.local_parent_path = parent_path
                        /\ p.folderish = folderish
                        /\ (with_digest => p.local_digest = digest))

\* The existing row _find_remote_child_match_or_create returns (0: none).
RemoteChildMatch(d, parent, child_info) ==
    LET by_digest ==
            IF ~child_info.folderish
            THEN find_first_name_match(d, child_info.name,
                     RemoteAlignCandidates(d, d[parent].local_path,
                         child_info.folderish, TRUE, child_info.digest), 1)
            ELSE 0
    IN  IF by_digest # 0 THEN by_digest
        ELSE find_first_name_match(d, child_info.name,
                 RemoteAlignCandidates(d, d[parent].local_path,
                     child_info.folderish, FALSE, NoDigest), 1)

\* Synchronizer._find_remote_child_match_or_create: the table, the row's
\* position and whether the row is new.
find_remote_child_match_or_create(d, parent, child_info) ==
    LET found == RemoteChildMatch(d, parent, child_info)
    IN  IF found # 0
        THEN [db |-> d, child_pair |-> found, new_pair |-> FALSE]
        ELSE [db |-> Append(d, NewPair(NoLocalInfo, child_info)),
              child_pair |-> Len(d) + 1, new_pair |-> TRUE]

RECURSIVE scan_remote_recursive(_, _, _, _, _)
RECURSIVE ScanRemoteChildren(_, _, _, _, _, _)

\* Synchronizer._scan_remote_recursive
scan_remote_recursive(d, r, i, remote_info, force_recursion) ==
    LET d1 == [d EXCEPT ![i] = update_remote(@, remote_info)]
    IN  IF ~remote_info.folderish THEN d1
        ELSE
          LET children_info == RemoteGetChildrenInfo(r, remote_info.uid)
              children_refs == {children_info[k].uid :
                                   k \in 1..Len(children_info)}
              not_selected == Query(d1, LAMBDA p :
                                  /\ p.remote_parent_ref = remote_info.uid
                                  /\ p.remote_ref \notin children_refs)
              d2 == MarkDeletedRemoteEach(d1, not_selected, 1, 1)
          IN  ScanRemoteChildren(d2, r, i, children_info, 1, force_recursion)

ScanRemoteChildren(d, r, i, children_info, k, force_recursion) ==
    IF k > Len(children_info) \/ Crashed(d) THEN d
    ELSE
      LET child_info == children_info[k]
          by_ref == QueryFirst(d, LAMBDA p : p.remote_ref = child_info.uid)
          made == IF by_ref = 0
                  THEN find_remote_child_match_or_create(d, i, child_info)
                  ELSE [db |-> d, child_pair |-> by_ref, new_pair |-> FALSE]
          d1 == IF made.new_pair \/ force_recursion
                THEN scan_remote_recursive(made.db, r, made.child_pair,
                                           child_info, TRUE)
                ELSE made.db
      IN  ScanRemoteChildren(d1, r, i, children_info, k + 1, force_recursion)

---------------------------------------------------------------------------
(* Descendant maintenance used by the resolver.                            *)

RECURSIVE delete_with_descendant_states(_, _, _, _)
RECURSIVE DeleteEach(_, _, _, _)

\* Synchronizer._delete_with_descendant_states
delete_with_descendant_states(d, i, keep_root, depth) ==
    IF Crashed(d) THEN d
    ELSE IF TooDeep(d, depth) THEN Crash(d)
    ELSE
      LET local_children ==
              IF d[i].local_path # NoPath
              THEN Query(d, LAMBDA p : p.local_parent_path = d[i].local_path)
              ELSE <<>>
          d1 == DeleteEach(d, local_children, 1, depth + 1)
          remote_children ==
              IF Crashed(d1) \/ d1[i].remote_ref = NoRef THEN <<>>
              ELSE Query(d1, LAMBDA p : p.remote_parent_ref = d1[i].remote_ref)
          d2 == DeleteEach(d1, remote_children, 1, depth + 1)
      IN  IF Crashed(d2) \/ keep_root THEN d2 ELSE SessionDelete(d2, i)

DeleteEach(d, rows, k, depth) ==
    IF k > Len(rows) \/ Crashed(d) THEN d
    ELSE DeleteEach(delete_with_descendant_states(d, rows[k], FALSE, depth),
                    rows, k + 1, depth)

\* A marking that stops at the pair itself.
MarkedWithoutDescendants(d, i, keep_root, depth) ==
    [d EXCEPT ![i] = update_state(reset_local(@), "unknown", "created")]

RECURSIVE mark_descendant_states_remotely_created(_, _, _, _)
RECURSIVE MarkRemotelyCreatedEach(_, _, _, _)

\* Synchronizer._mark_descendant_states_remotely_created
mark_descendant_states_remotely_created(d, i, keep_root, depth) ==
    IF Crashed(d) THEN d
    ELSE IF TooDeep(d, depth) THEN Crash(d)
    ELSE
      LET local_children ==
              IF d[i].local_path # NoPath
              THEN Query(d, LAMBDA p : p.local_parent_path = d[i].local_path)
              ELSE <<>>
          d1 == MarkRemotelyCreatedEach(d, local_children, 1, depth + 1)
      IN  IF Crashed(d1) \/ keep_root THEN d1
          ELSE [d1 EXCEPT ![i] =
                   update_state(reset_local(@), "unknown", "created")]

MarkRemotelyCreatedEach(d, rows, k, depth) ==
    IF k > Len(rows) \/ Crashed(d) THEN d
    ELSE MarkRemotelyCreatedEach(
             mark_descendant_states_remotely_created(d, rows[k], FALSE, depth),
             rows, k + 1, depth)

\* LastKnownState.refresh_local(client, local_path): the row after the update.
refresh_local(p, fs, local_path) ==
    update_local(p, LocalGetInfo(fs, IF local_path = NoPath THEN p.local_path
                                     ELSE local_path))

\* LastKnownState.refresh_remote(client): the row after the update.
refresh_remote(p, r) == update_remote(p, RemoteGetInfo(r, p.remote_ref))

\* A renaming that rewrites the pair and leaves the rows below it alone.
LocalRenameWithoutDescendants(d, fs, i, previous_local_path, updated_path, depth) ==
    IF d[i].local_path = NoPath THEN Crash(d)
    ELSE [d EXCEPT ![i] = refresh_local(@, fs, updated_path)]

RECURSIVE local_rename_with_descendant_states(_, _, _, _, _, _)
RECURSIVE LocalRenameEach(_, _, _, _, _, _)

\* Synchronizer._local_rename_with_descendant_states.  The ValueError of a
\* row without local path ends the operation like a crash does.
local_rename_with_descendant_states(d, fs, i, previous_local_path, updated_path, depth) ==
    IF Crashed(d) THEN d
    ELSE IF TooDeep(d, depth) \/ d[i].local_path = NoPath THEN Crash(d)
    ELSE
      LET local_children ==
              Query(d, LAMBDA p : p.local_parent_path = previous_local_path)
          d1 == LocalRenameEach(d, fs, local_children, 1, updated_path,
                                depth + 1)
      IN  IF Crashed(d1) THEN d1
          ELSE [d1 EXCEPT ![i] = refresh_local(@, fs, updated_path)]

LocalRenameEach(d, fs, rows, k, updated_path, depth) ==
    IF k > Len(rows) \/ Crashed(d) THEN d
    ELSE LocalRenameEach(
             local_rename_with_descendant_states(d, fs, rows[k],
                 d[rows[k]].local_path,
                 Append(updated_path, d[rows[k]].local_name), depth),
             fs, rows, k + 1, updated_path, depth)

RECURSIVE update_remote_parent_path_recursive(_, _, _, _)
RECURSIVE UpdateRemoteParentPathEach(_, _, _, _, _)

\* Synchronizer._update_remote_parent_path_recursive
update_remote_parent_path_recursive(d, i, updated_path, depth) ==
    IF Crashed(d) THEN d
    ELSE IF TooDeep(d, depth) \/ d[i].remote_ref = NoRef THEN Crash(d)
    ELSE
      LET local_children ==
              Query(d, LAMBDA p : p.remote_parent_ref = d[i].remote_ref)
          d1 == UpdateRemoteParentPathEach(d, local_children, 1, updated_path,
                                           depth + 1)
      IN  IF Crashed(d1) THEN d1
          ELSE [d1 EXCEPT ![i].remote_parent_path = updated_path]

UpdateRemoteParentPathEach(d, rows, k, updated_path, depth) ==
    IF k > Len(rows) \/ Crashed(d) THEN d
    ELSE UpdateRemoteParentPathEach(
             update_remote_parent_path_recursive(d, rows[k],
                 Append(updated_path, d[rows[k]].remote_ref), depth),
             rows, k + 1, updated_path, depth)

---------------------------------------------------------------------------
(* The move / rename detector.                                             *)

\* _local_children_names
local_children_names(d, i) ==
    {d[k].local_name : k \in {j \in LiveIdx(d) :
                                 d[j].local_parent_path = d[i].local_path}}

\* The candidates query without the filters on the candidate's own states:
\* every row that resembles the pair is a candidate.
MoveCandidatesOfAnyState(d, i) ==
    IF d[i].pair_state \in {"locally_deleted", "locally_created"}
    THEN Query(d, LAMBDA p :
            /\ p.folderish = d[i].folderish
            /\ IF d[i].folderish
               THEN \/ p.local_name = d[i].local_name
                    \/ p.local_parent_path = d[i].local_parent_path
               ELSE p.local_digest = d[i].local_digest)
    ELSE <<>>

\* The candidates query of _detect_local_move_or_rename.
MoveCandidates(d, i) ==
    LET doc_pair == d[i]
        Similar(p) ==
            /\ p.folderish = doc_pair.folderish
            /\ IF doc_pair.folderish
               THEN \/ p.local_name = doc_pair.local_name
                    \/ p.local_parent_path = doc_pair.local_parent_path
               ELSE p.local_digest = doc_pair.local_digest
    IN  IF doc_pair.pair_state = "locally_deleted"
        THEN Query(d, LAMBDA p : /\ Similar(p)
                                 /\ p.remote_ref = NoRef
                                 /\ p.local_state \in {"created", "unknown"})
        ELSE IF doc_pair.pair_state = "locally_created"
             THEN Query(d, LAMBDA p : Similar(p) /\ p.local_state = "deleted")
             ELSE <<>>

\* The sort key of a candidate: (jaccard, same_name, same_parent).
Relatedness(d, i, c) ==
    [ji |-> IF d[i].folderish
            THEN jaccard_index(local_children_names(d, i),
                               local_children_names(d, c))
            ELSE <<1, 1>>,
     same_name |-> d[i].local_name = d[c].local_name,
     same_parent |-> d[i].local_parent_path = d[c].local_parent_path]

\* k1 < k2 in the order Python gives the key tuples.
RelatednessLess(k1, k2) ==
    \/ JaccardLess(k1.ji, k2.ji)
    \/ /\ ~JaccardLess(k2.ji, k1.ji)
       /\ \/ (~k1.same_name /\ k2.same_name)
          \/ /\ k1.same_name = k2.same_name
             /\ ~k1.same_parent /\ k2.same_parent

\* rerank_local_rename_or_move_candidates: the candidates the loop keeps
\* (lines 106-119).
RerankedKept(d, i, candidates) ==
    {c \in Range(candidates) : ~JaccardIsZero(Relatedness(d, i, c).ji)}

\* rerank_local_rename_or_move_candidates: the candidates that can come
\* first in the result.  The sort compares (key, candidate) tuples, so that
\* candidates with equal keys are ordered by the rows' object identity: any
\* of them can be first.
RerankedFirst(d, i, candidates) ==
    LET kept == {c \in Range(candidates) :
                    ~JaccardIsZero(Relatedness(d, i, c).ji)}
    IN  {c \in kept : \A o \in kept :
            ~RelatednessLess(Relatedness(d, i, c), Relatedness(d, i, o))}

\* candidates is in the order of the key tuples, the greatest first.
KeysDescend(d, i, candidates) ==
    \A k \in 1..(Len(candidates) - 1) :
        ~RelatednessLess(Relatedness(d, i, candidates[k]),
                         Relatedness(d, i, candidates[k + 1]))

\* rerank_local_rename_or_move_candidates: the lists it can return.  The
\* candidates of a jaccard index of 0 are left out; relatednesses.sort
\* puts the others in the descending order of the (key, candidate) tuples,
\* and two candidates of equal keys in the order of their object identity.
Reranked(d, i, candidates) ==
    {s \in [1..Cardinality(RerankedKept(d, i, candidates)) ->
                RerankedKept(d, i, candidates)] :
        /\ Range(s) = RerankedKept(d, i, candidates)
        /\ KeysDescend(d, i, s)}

\* _detect_local_move_or_rename: the rows that can be the best candidate
\* (the empty set: nothing detected).
BestCandidates(d, i) ==
    LET candidates == MoveCandidates(d, i)
    IN  IF Len(candidates) = 0 THEN {}
        ELSE IF Len(candidates) > 1 \/ d[i].folderish
             THEN RerankedFirst(d, i, candidates)
             ELSE {candidates[1]}

\* The choices of a best candidate: one of BestCandidates, or 0 for none.
BestChoices(d, i) ==
    IF BestCandidates(d, i) = {} THEN {0} ELSE BestCandidates(d, i)

---------------------------------------------------------------------------
(* What a step of the resolver yields: the table, both trees, and how the  *)
(* step ended: "ok", "exception" (any error that is not a network error),  *)
(* "neterr" (one of POSSIBLE_NETWORK_ERROR_TYPES, not HTTP 500 / 403) or   *)
(* "ioerror" (an IOError that the handler swallows: it returns normally).  *)

Outcome(d, fs, r, err) == [db |-> d, lfs |-> fs, rfs |-> r, err |-> err]

\* The table without the mark of an endless recursion.
Uncrashed(d) == IF Crashed(d) THEN SubSeq(d, 1, Len(d) - 1) ELSE d

\* An endless recursion in a handler is an exception like another.
Checked(d, fs, r) ==
    Outcome(Uncrashed(d), fs, r, IF Crashed(d) THEN "exception" ELSE "ok")

\* LocalClient._abspath_deduped(parent, name, old_name): the name taken.
LocalDedupedRename(fs, parent, name, old_name) ==
    IF old_name = name \/ Append(parent, name) \notin DOMAIN fs THEN name
    ELSE IF NextDeduped(name) = NoName THEN NoName
         ELSE IF old_name = NextDeduped(name)
                 \/ Append(parent, NextDeduped(name)) \notin DOMAIN fs
              THEN NextDeduped(name)
              ELSE NoName

\* LocalClient.rename(path, new_name): the new path (NoPath: it fails).
LocalRenamePath(fs, path, new_name) ==
    IF path \notin DOMAIN fs \/ path = Root THEN NoPath
    ELSE LET name == LocalDedupedRename(fs, Front(path),
                                        SafeFilename(new_name), Last(path))
         IN  IF name = NoName THEN NoPath ELSE Append(Front(path), name)

\* LocalClient.move(path, new_parent_path): the new path (NoPath: it fails).
LocalMovePath(fs, path, new_parent) ==
    IF \/ path \notin DOMAIN fs \/ path = Root
       \/ new_parent \notin DOMAIN fs \/ IsPrefix(path, new_parent)
    THEN NoPath
    ELSE LET name == LocalDedupedName(fs, new_parent, Last(path))
         IN  IF name = NoName THEN NoPath ELSE Append(new_parent, name)

\* RemoteFileSystemClient.can_move(ref, target_ref)
RemoteCanMove(r, ref, target_ref) ==
    /\ r[ref].can_delete
    /\ r[target_ref].can_create_child
    /\ target_ref \notin RemoteSubtree(r, ref)

\* Synchronizer._is_remote_move
is_remote_move(d, i) ==
    LET local_parent_pair ==
            QueryFirst(d, LAMBDA p : p.local_path = d[i].local_parent_path)
        remote_parent_pair ==
            QueryFirst(d, LAMBDA p : p.remote_ref = d[i].remote_parent_ref)
    IN  [is_move |-> /\ local_parent_pair # 0
                     /\ remote_parent_pair # 0
                     /\ local_parent_pair # remote_parent_pair,
         new_parent_pair |-> remote_parent_pair]

Synchronized(d, i) ==
    [d EXCEPT ![i] = update_state(@, "synchronized", "synchronized")]

\* Where _detect_resolve_local_move stands: the table, the server, how it
\* goes on ("ok" or the error raised), whether something was moved or
\* renamed, and whether the method has returned.
Resolution(d, r, err, moved, returned) ==
    [db |-> d, rfs |-> r, err |-> err, moved |-> moved, returned |-> returned]

\* target_doc_pair.update_remote(remote_info), remote_info being what the
\* server answers to the move or the renaming of the source document.
TargetUpdated(d, r, source, target) ==
    LET remote_info == RemoteGetInfo(r, d[source].remote_ref)
    IN  IF UpdateRemoteRaises(d[target], remote_info)
        THEN Resolution(d, r, "exception", FALSE, TRUE)
        ELSE Resolution([d EXCEPT ![target] = update_remote(@, remote_info)],
                        r, "ok", TRUE, FALSE)

\* The move step of _detect_resolve_local_move.
ResolveMove(d, r, source, target, parent_doc_pair) ==
    LET remote_ref == d[source].remote_ref
        MoveUnder(d1, target_ref) ==
            IF target_ref \notin DOMAIN r
            THEN Resolution(d1, r, "neterr", FALSE, TRUE)
            ELSE IF ~RemoteCanMove(r, remote_ref, target_ref)
            THEN Resolution(d1, r, "ok", FALSE, TRUE)
            ELSE TargetUpdated(d1, [r EXCEPT ![remote_ref].parent = target_ref],
                               source, target)
    IN  IF \/ d[target].local_parent_path = d[source].local_parent_path
           \/ parent_doc_pair = 0
        THEN Resolution(d, r, "ok", FALSE, FALSE)
        ELSE IF d[parent_doc_pair].remote_ref = NoRef
        THEN Resolution(d, r, "ok", FALSE, FALSE)
        ELSE MoveUnder([d EXCEPT ![parent_doc_pair] = refresh_remote(@, r)],
                       d[parent_doc_pair].remote_ref)

\* A renaming step that binds the target and sends no renaming.
RenameUnsent(st, source, target) ==
    IF st.returned \/ st.db[target].local_name = st.db[source].local_name
    THEN st
    ELSE TargetUpdated(st.db, st.rfs, source, target)

\* The renaming step of _detect_resolve_local_move.
ResolveRename(st, source, target) ==
    LET remote_ref == st.db[source].remote_ref
        new_name == st.db[target].local_name
    IN  IF st.returned \/ new_name = st.db[source].local_name THEN st
        ELSE TargetUpdated(st.db,
                 IF st.rfs[remote_ref].can_rename
                 THEN [st.rfs EXCEPT ![remote_ref].name = new_name,
                                     ![remote_ref].mtime = now]
                 ELSE st.rfs,
                 source, target)

\* The rescan of the moved folder.
MoveRescan(d, r, target) ==
    Resolution(IF Crashed(d) THEN d
               ELSE scan_remote_recursive(d, r, target,
                        RemoteGetInfo(r, d[target].remote_ref), TRUE),
               r, "ok", TRUE, FALSE)

\* The last step of _detect_resolve_local_move: the states realigned.
ResolveStates(st, folderish, source, target) ==
    IF st.returned \/ ~st.moved THEN st
    ELSE IF folderish
    THEN MoveRescan(delete_with_descendant_states(
                        Synchronized(st.db, target), source, FALSE, 1),
                    st.rfs, target)
    ELSE [st EXCEPT !.db = SessionDelete(Synchronized(st.db, target), source)]

\* What _detect_resolve_local_move hands back to the handler.
MoveResult(st, fs) ==
    [out |-> IF st.err # "ok" THEN Outcome(st.db, fs, st.rfs, st.err)
             ELSE Checked(st.db, fs, st.rfs),
     moved |-> st.moved /\ ~st.returned]

\* Synchronizer._detect_resolve_local_move, for the best candidate best
\* (0: none).  moved tells what the method returns.
detect_resolve_local_move(d, fs, r, i, best) ==
    LET source == IF d[i].pair_state = "locally_deleted" THEN i ELSE best
        target == IF d[i].pair_state = "locally_deleted" THEN best ELSE i
    IN  IF best = 0
        THEN [out |-> Outcome(d, fs, r, "ok"), moved |-> FALSE]
        ELSE IF d[source].remote_ref \notin DOMAIN r
        THEN [out |-> Outcome(d, fs, r, "ok"), moved |-> FALSE]
        ELSE MoveResult(
               ResolveStates(
                 ResolveRename(
                   ResolveMove(d, r, source, target,
                     QueryFirst(d, LAMBDA p :
                         p.local_path = d[target].local_parent_path)),
                   source, target),
                 d[i].folderish, source, target),
               fs)

---------------------------------------------------------------------------
(* The resolver handlers.  Each takes the table, the two trees and the     *)
(* position of the pair, and yields an Outcome.                            *)

\* The refs the server has given so far.
UsedRefs(d, r) ==
    DOMAIN r \cup {d[k].remote_ref : k \in 1..Len(d)}
             \cup {rlog[k].ref : k \in 1..Len(rlog)}
             \cup hist.made

\* The handler returns without uploading and without marking the pair.
LocallyModifiedKept(d, fs, r, i) == Outcome(d, fs, r, "ok")

\* Synchronizer._synchronize_locally_modified
synchronize_locally_modified(d, fs, r, i) ==
    IF d[i].remote_digest # d[i].local_digest
    THEN IF d[i].remote_ref \notin DOMAIN r THEN Outcome(d, fs, r, "neterr")
         ELSE IF d[i].local_path \notin DOMAIN fs
              THEN Outcome(d, fs, r, "exception")
         ELSE \* remote_client.stream_update(remote_ref, abspath, filename)
              LET r1 == [r EXCEPT
                           ![d[i].remote_ref].digest = fs[d[i].local_path].digest,
                           ![d[i].remote_ref].mtime = now]
                  d1 == [d EXCEPT ![i] = refresh_remote(@, r1)]
              IN  Outcome(Synchronized(d1, i), fs, r1, "ok")
    ELSE Outcome(Synchronized(d, i), fs, r, "ok")

\* _synchronize_remotely_modified, the digests differing: the content of
\* the local file is replaced by the content of the document.
ContentDownloaded(d, fs, r, i) ==
    LET Refreshed(fs1) ==
            Outcome(Synchronized(
                        [d EXCEPT ![i] = refresh_local(@, fs1, NoPath)], i),
                    fs1, r, "ok")
    IN  IF d[i].local_path \notin DOMAIN fs THEN Outcome(d, fs, r, "exception")
        ELSE IF d[i].remote_ref \notin DOMAIN r
        THEN \* urllib2.URLError and socket.error are IOErrors: swallowed
             Outcome(d, fs, r, "ioerror")
        ELSE \* stream_content to a temporary file, delete, rename
             Refreshed(LocalPut(LocalDelete(fs, d[i].local_path),
                                d[i].local_path, FALSE,
                                r[d[i].remote_ref].digest, now))

\* Where the move and the renaming of _synchronize_remotely_modified stand:
\* the table, the local tree, updated_info.path (NoPath: not set) and how
\* it goes on ("ioerror": an IOError, which the handler swallows).
LocalStep(d, fs, path, err) == [db |-> d, lfs |-> fs, path |-> path, err |-> err]

\* _synchronize_remotely_modified: the local move.  shutil.move gives an
\* IOError when the source or the new parent is not on the disk.
RemoteMoveApplied(d, fs, i, is_move, new_parent_pair) ==
    LET Refreshed(d1, fs1, moved_path) ==
            LocalStep([d1 EXCEPT ![i] = refresh_local(@, fs1, moved_path)],
                      fs1, moved_path, "ok")
        MovedTo(d1, moved_path, on_disk) ==
            IF moved_path = NoPath
            THEN LocalStep(d1, fs, NoPath,
                           IF on_disk THEN "exception" ELSE "ioerror")
            ELSE Refreshed(d1, LocalRelocate(fs, d[i].local_path, moved_path),
                           moved_path)
        Moved(d1, new_parent_path) ==
            IF Crashed(d1) \/ new_parent_path = NoPath
            THEN LocalStep(Uncrashed(d1), fs, NoPath, "exception")
            ELSE MovedTo(d1,
                         LocalMovePath(fs, d[i].local_path, new_parent_path),
                         d[i].local_path \in DOMAIN fs
                             /\ new_parent_path \in DOMAIN fs)
    IN  IF ~is_move THEN LocalStep(d, fs, NoPath, "ok")
        ELSE Moved(update_remote_parent_path_recursive(d, i,
                       d[i].remote_parent_path, 1),
                   d[new_parent_pair].local_path)

\* _synchronize_remotely_modified: the local renaming.  os.rename gives an
\* OSError, which the handler does not catch.
RemoteRenameApplied(st, i, is_renaming, new_name) ==
    LET Renamed(renamed_path) ==
            IF renamed_path = NoPath THEN [st EXCEPT !.err = "exception"]
            ELSE [st EXCEPT
                    !.lfs = IF renamed_path # st.db[i].local_path
                            THEN LocalRelocate(@, st.db[i].local_path,
                                               renamed_path)
                            ELSE @,
                    !.path = renamed_path]
    IN  IF st.err # "ok" \/ ~is_renaming THEN st
        ELSE Renamed(LocalRenamePath(st.lfs, st.db[i].local_path, new_name))

\* _synchronize_remotely_modified: the states of the descendants follow.
RemoteMoveFinished(st, r, i, previous_local_path) ==
    LET Done(d3) ==
            IF Crashed(d3) THEN Checked(d3, st.lfs, r)
            ELSE Outcome(Synchronized(d3, i), st.lfs, r, "ok")
    IN  IF st.err # "ok" THEN Outcome(st.db, st.lfs, r, st.err)
        ELSE Done(local_rename_with_descendant_states(st.db, st.lfs, i,
                      previous_local_path, st.path, 1))

\* Synchronizer._synchronize_remotely_modified
synchronize_remotely_modified(d, fs, r, i, remote_info) ==
    LET Moving(mv, is_renaming) ==
            IF ~mv.is_move /\ ~is_renaming
            THEN Outcome(Synchronized(d, i), fs, r, "ok")
            ELSE RemoteMoveFinished(
                   RemoteRenameApplied(
                     RemoteMoveApplied(d, fs, i, mv.is_move,
                                       mv.new_parent_pair),
                     i, is_renaming, remote_info.name),
                   r, i, d[i].local_path)
    IN  IF d[i].remote_digest # d[i].local_digest
           /\ d[i].local_digest # NoDigest
        THEN ContentDownloaded(d, fs, r, i)
        ELSE Moving(is_remote_move(d, i), d[i].remote_name # d[i].local_name)

\* _synchronize_remotely_created: the pair once the file or the folder is
\* on the disk at path.
LocallyMade(d, fs, r, i, path) ==
    IF Crashed(d) THEN Checked(d, fs, r)
    ELSE Outcome(Synchronized(
             [d EXCEPT ![i] = update_local(@, LocalGetInfo(fs, path))], i),
             fs, r, "ok")

\* _synchronize_remotely_created: the creation at path.
RemotelyCreatedAt(d, fs, r, i, remote_info, path) ==
    IF d[i].folderish
    THEN \* local_client.make_folder, then the scan of the remote content
         LocallyMade(scan_remote_recursive(d, r, i, remote_info, FALSE),
                     LocalPut(fs, path, TRUE, NoDigest, now), r, i, path)
    ELSE IF d[i].remote_ref \notin DOMAIN r THEN Outcome(d, fs, r, "neterr")
    ELSE \* get_new_file, stream_content, rename of the temporary file
         LocallyMade(d, LocalPut(fs, path, FALSE, r[d[i].remote_ref].digest,
                                 now), r, i, path)

\* Synchronizer._synchronize_remotely_created
synchronize_remotely_created(d, fs, r, i, remote_info) ==
    LET parent_pair ==
            QueryFirst(d, LAMBDA p : p.remote_ref = remote_info.parent_uid)
        local_parent_path == d[parent_pair].local_path
        name == LocalDedupedName(fs, local_parent_path,
                                 SafeFilename(remote_info.name))
    IN  IF ~remote_info.exists \/ parent_pair = 0
        THEN Outcome(d, fs, r, "exception")
        ELSE IF local_parent_path = NoPath
        THEN Outcome(d, fs, r, "exception")
        ELSE IF local_parent_path \notin DOMAIN fs \/ name = NoName
        THEN Outcome(d, fs, r, "exception")
        ELSE RemotelyCreatedAt(d, fs, r, i, remote_info,
                               Append(local_parent_path, name))

\* _synchronize_locally_created: the pair bound to the document made.
RemotelyMade(d, fs, r, i, remote_ref) ==
    LET info == RemoteGetInfo(r, remote_ref)
    IN  IF UpdateRemoteRaises(d[i], info) THEN Outcome(d, fs, r, "exception")
        ELSE Outcome(Synchronized([d EXCEPT ![i] = update_remote(@, info)], i),
                     fs, r, "ok")

\* A creation handler that raises whatever the parent pair is.
CreationRaises(d, fs, r, i) == Outcome(d, fs, r, "exception")

\* A creation that asks nothing of the parent pair but to exist: the
\* document is made under whatever ref the parent pair has.
CreateRemotelyUnderAnyParent(d, fs, r, i) ==
    LET parent_pair ==
            QueryFirst(d, LAMBDA p : p.local_path = d[i].local_parent_path)
        remote_ref == FreshRef(UsedRefs(d, r))
    IN  IF parent_pair = 0 \/ remote_ref = NoRef
           \/ d[i].local_path \notin DOMAIN fs
        THEN Outcome(d, fs, r, "exception")
        ELSE RemotelyMade(d, fs,
                 RemotePut(r, remote_ref,
                     [parent |-> d[parent_pair].remote_ref,
                      name |-> Last(d[i].local_path),
                      folderish |-> d[i].folderish,
                      digest |-> IF d[i].folderish THEN NoDigest
                                 ELSE fs[d[i].local_path].digest,
                      mtime |-> now, can_delete |-> TRUE, can_rename |-> TRUE,
                      can_create_child |-> TRUE]),
                 i, remote_ref)

\* _synchronize_locally_created, no move having been resolved: the document
\* is made under the parent, or the pair is marked unsynchronizable.
CreateRemotely(d, fs, r, i) ==
    LET parent_pair ==
            QueryFirst(d, LAMBDA p : p.local_path = d[i].local_parent_path)
        parent_ref == d[parent_pair].remote_ref
        remote_ref == FreshRef(UsedRefs(d, r))
    IN  IF parent_pair = 0 THEN Outcome(d, fs, r, "exception")
        ELSE IF d[parent_pair].remote_can_create_child # Stored(TRUE)
        THEN Outcome(Synchronized(
                 IF d[i].folderish
                 THEN [d EXCEPT ![i].remote_can_create_child = Stored(FALSE)]
                 ELSE d, i), fs, r, "ok")
        ELSE IF parent_ref = NoRef THEN Outcome(d, fs, r, "exception")
        ELSE IF parent_ref \notin DOMAIN r THEN Outcome(d, fs, r, "neterr")
        ELSE IF d[i].local_path \notin DOMAIN fs \/ remote_ref = NoRef
        THEN Outcome(d, fs, r, "exception")
        ELSE \* remote_client.make_folder / stream_file
             RemotelyMade(d, fs,
                 RemotePut(r, remote_ref,
                     [parent |-> parent_ref, name |-> Last(d[i].local_path),
                      folderish |-> d[i].folderish,
                      digest |-> IF d[i].folderish THEN NoDigest
                                 ELSE fs[d[i].local_path].digest,
                      mtime |-> now, can_delete |-> TRUE, can_rename |-> TRUE,
                      can_create_child |-> TRUE]),
                 i, remote_ref)

\* _synchronize_locally_created after the move detection, whose result is
\* res.
LocallyCreated(res, fs, i) ==
    IF res.moved \/ res.out.err # "ok" THEN res.out
    ELSE CreateRemotely(res.out.db, fs, res.out.rfs, i)

\* Synchronizer._synchronize_locally_created
synchronize_locally_created(d, fs, r, i, best) ==
    LocallyCreated(detect_resolve_local_move(d, fs, r, i, best), fs, i)

\* A deletion that forgets the pair and leaves the document on the server.
DeleteRemotelyKept(d, fs, r, i, remote_info) ==
    Checked(delete_with_descendant_states(d, i, FALSE, 1), fs, r)

\* _synchronize_locally_deleted, no move having been resolved.
DeleteRemotely(d, fs, r, i, remote_info) ==
    IF d[i].remote_ref = NoRef THEN Outcome(d, fs, r, "ok")
    ELSE IF remote_info.can_delete
    THEN IF d[i].remote_ref \notin DOMAIN r THEN Outcome(d, fs, r, "neterr")
         ELSE Checked(delete_with_descendant_states(d, i,
                          ~remote_info.can_delete, 1),
                      fs, RemoteDelete(r, d[i].remote_ref))
    ELSE Checked(mark_descendant_states_remotely_created(d, i, FALSE, 1),
                 fs, r)

\* _synchronize_locally_deleted after the move detection, whose result is
\* res.
LocallyDeleted(res, fs, i, remote_info) ==
    IF res.moved \/ res.out.err # "ok" THEN res.out
    ELSE DeleteRemotely(res.out.db, fs, res.out.rfs, i, remote_info)

\* Synchronizer._synchronize_locally_deleted
synchronize_locally_deleted(d, fs, r, i, remote_info, best) ==
    LocallyDeleted(detect_resolve_local_move(d, fs, r, i, best), fs, i,
                   remote_info)

\* Synchronizer._synchronize_remotely_deleted
synchronize_remotely_deleted(d, fs, r, i) ==
    IF d[i].local_path # NoPath
    THEN Checked(delete_with_descendant_states(d, i, FALSE, 1),
                 LocalDelete(fs, d[i].local_path), r)
    ELSE Checked(delete_with_descendant_states(d, i, FALSE, 1), fs, r)

\* Synchronizer._synchronize_deleted
synchronize_deleted(d, fs, r, i) ==
    Checked(delete_with_descendant_states(d, i, FALSE, 1), fs, r)

\* A handler of the conflicts that leaves the pair as it is.
ConflictedKept(d, fs, r, i, remote_info) == Outcome(d, fs, r, "ok")

\* Synchronizer._synchronize_conflicted
synchronize_conflicted(d, fs, r, i, remote_info) ==
    IF d[i].local_digest = d[i].remote_digest
    THEN Outcome(Synchronized(d, i), fs, r, "ok")
    ELSE LET new_path == LocalRenamePath(fs, d[i].local_path,
                                         ConflictedName(d[i].local_name))
         IN  IF new_path = NoPath THEN Outcome(d, fs, r, "exception")
             ELSE synchronize_remotely_created(d,
                      LocalRelocate(fs, d[i].local_path, new_path),
                      r, i, remote_info)

---------------------------------------------------------------------------
(* synchronize_one and the choice of the pair in synchronize.              *)

\* synchronize_one up to the dispatch: both sides refreshed, creation
\* detected.
SyncRefreshed(d, fs, r, i) ==
    LET RefreshedLocal(p) ==
            IF p.local_path # NoPath THEN refresh_local(p, fs, NoPath) ELSE p
        RefreshedRemote(p) ==
            IF p.remote_ref # NoRef THEN refresh_remote(p, r) ELSE p
        DetectCreation(p) ==
            IF p.local_state = "deleted" \/ p.remote_state = "deleted" THEN p
            ELSE IF p.remote_ref = NoRef /\ p.local_path # NoPath
            THEN update_state(p, "created", Keep)
            ELSE IF p.remote_ref # NoRef /\ p.local_path = NoPath
            THEN update_state(p, Keep, "created")
            ELSE p
    IN  [d EXCEPT ![i] = DetectCreation(RefreshedRemote(RefreshedLocal(@)))]

\* The pair states that have a _synchronize_<pair_state> method.
HandledStates == {"locally_modified", "remotely_modified", "locally_created",
                  "remotely_created", "locally_deleted", "remotely_deleted",
                  "deleted", "conflicted"}

\* synchronize_one from the dispatch on: d is the refreshed table, best the
\* best candidate of the move detector (0: none).
SyncDispatch(d, fs, r, i, best) ==
    LET remote_info == IF d[i].remote_ref # NoRef
                       THEN RemoteGetInfo(r, d[i].remote_ref)
                       ELSE NoRemoteInfo
        state == d[i].pair_state
    IN  CASE state = "locally_modified" ->
               synchronize_locally_modified(d, fs, r, i)
          [] state = "remotely_modified" ->
               synchronize_remotely_modified(d, fs, r, i, remote_info)
          [] state = "locally_created" ->
               synchronize_locally_created(d, fs, r, i, best)
          [] state = "remotely_created" ->
               synchronize_remotely_created(d, fs, r, i, remote_info)
          [] state = "locally_deleted" ->
               synchronize_locally_deleted(d, fs, r, i, remote_info, best)
          [] state = "remotely_deleted" ->
               synchronize_remotely_deleted(d, fs, r, i)
          [] state = "deleted" -> synchronize_deleted(d, fs, r, i)
          [] state = "conflicted" ->
               synchronize_conflicted(d, fs, r, i, remote_info)
          [] OTHER -> Outcome(d, fs, r, "exception")

\* Synchronizer.synchronize_one
synchronize_one(d, fs, r, i, best) ==
    SyncDispatch(SyncRefreshed(d, fs, r, i), fs, r, i, best)

\* Controller.list_pending: the rows that are not synchronized and not in
\* their error cooldown, in rowid order.
PendingRows(d) ==
    Query(d, LAMBDA p : p.pair_state # "synchronized" /\ ~p.in_error)

\* The orders list_pending can give the pending rows in: every row can come
\* first (the rotations of the rowid order).
PendingOrders(d) ==
    LET rows == PendingRows(d)
        n == Len(rows)
    IN  {[k \in 1..n |-> rows[((k + s - 1) % n) + 1]] : s \in 0..(n - 1)}

\* The first pending row is taken, whatever its local_path.
FirstPending(d, pending, pending_iterator) == 1

\* The loop on pending_iterator in synchronize: the position it ends on.
RECURSIVE PendingIterator(_, _, _)
PendingIterator(d, pending, pending_iterator) ==
    IF d[pending[pending_iterator]].local_path = NoPath
       /\ Len(pending) > pending_iterator
    THEN PendingIterator(d, pending, pending_iterator + 1)
    ELSE IF d[pending[pending_iterator]].local_path = NoPath
            /\ Len(pending) = pending_iterator
         THEN 1
         ELSE pending_iterator

\* The rows synchronize can hand to synchronize_one.
SelectedPending(d) ==
    {pending[PendingIterator(d, pending, 1)] : pending \in PendingOrders(d)}

---------------------------------------------------------------------------
(* The top-level scans and the incremental change application.  Each gives *)
(* the table and how it ended: "ok", "exception" (an error no caller        *)
(* catches) or "notfound".                                                  *)

\* query(local_path='/').one(): the root row, 0 when .one() raises.
RootPair(d) ==
    LET roots == Query(d, LAMBDA p : p.local_path = Root)
    IN  IF Len(roots) = 1 THEN roots[1] ELSE 0

Ended(d, err) == [db |-> d, err |-> err]

ScanEnded(d) ==
    IF Crashed(d) THEN Ended(Uncrashed(d), "exception")
    ELSE Ended(Commit(d), "ok")

\* Synchronizer.scan_local
scan_local(d, fs) ==
    LET from_state == RootPair(d)
        info == LocalGetInfo(fs, Root)
    IN  IF from_state = 0 THEN Ended(d, "exception")
        ELSE IF ~info.exists THEN Ended(d, "notfound")
        ELSE ScanEnded(scan_local_recursive(d, fs, from_state, info))

\* Synchronizer.scan_remote
scan_remote(d, r) ==
    LET from_state == RootPair(d)
        remote_info == RemoteGetInfo(r, d[from_state].remote_ref)
    IN  IF from_state = 0 THEN Ended(d, "exception")
        ELSE IF ~remote_info.exists
        THEN Ended(Commit([d EXCEPT ![from_state] =
                              update_remote(@, NoRemoteInfo)]), "ok")
        ELSE ScanEnded(scan_remote_recursive(d, r, from_state, remote_info,
                                             TRUE))

\* sorted(changes, key=eventDate, reverse=True): a stable sort, so events of
\* one date keep the order the server gave them in.
RECURSIVE SortedChanges(_)
SortedChanges(changes) ==
    IF changes = <<>> THEN <<>>
    ELSE LET top == Max({changes[k].eventDate : k \in 1..Len(changes)})
         IN  SelectSeq(changes, LAMBDA c : c.eventDate = top)
             \o SortedChanges(SelectSeq(changes, LAMBDA c : c.eventDate # top))

\* What a turn of the loop over sorted_changes in _update_remote_states
\* yields: the table, the refreshed set, whether the turn committed, and
\* how it ended.
Turn(d, refs, commit, err) ==
    [db |-> d, refreshed |-> refs, commit |-> commit, err |-> err]

\* The turn for a known pair, existing being the table refreshed.
ExistingRefreshed(existing, done, remote_ref) ==
    IF Crashed(existing)
    THEN Turn(Uncrashed(existing), done, FALSE, "exception")
    ELSE Turn(Commit(existing), done \cup {remote_ref}, TRUE, "ok")

\* The turn for an unknown ref with a known parent, scanned being the table
\* with the child pair.
ChildRefreshed(scanned, done, remote_ref) ==
    IF Crashed(scanned)
    THEN Turn(Uncrashed(scanned), done, FALSE, "exception")
    ELSE Turn(scanned, done \cup {remote_ref}, FALSE, "ok")

\* The child pair found or made by _find_remote_child_match_or_create,
\* scanned or updated.
ChildScanned(made, r, new_info) ==
    IF made.db[made.child_pair].folderish /\ made.new_pair
    THEN scan_remote_recursive(made.db, r, made.child_pair, new_info, TRUE)
    ELSE IF ~made.new_pair
    THEN [made.db EXCEPT ![made.child_pair] = update_remote(@, new_info)]
    ELSE made.db

\* One turn of the loop over sorted_changes in _update_remote_states, for
\* the event change.
UpdateRemoteStatesTurn(d, r, done, change) ==
    LET remote_ref == change.fileSystemItemId
        new_info == change.fileSystemItem
        doc_pair == QueryFirst(d, LAMBDA p : p.remote_ref = remote_ref)
        parent_pair == QueryFirst(d, LAMBDA p :
                                     p.remote_ref = new_info.parent_uid)
    IN  IF remote_ref \in done THEN Turn(d, done, FALSE, "ok")
        ELSE IF doc_pair # 0
        THEN ExistingRefreshed(
                 IF ~new_info.exists
                 THEN [d EXCEPT ![doc_pair] = update_state(@, Keep, "deleted")]
                 ELSE scan_remote_recursive(d, r, doc_pair, new_info, FALSE),
                 done, remote_ref)
        ELSE IF new_info.exists /\ parent_pair # 0
        THEN ChildRefreshed(
                 ChildScanned(
                     find_remote_child_match_or_create(d, parent_pair,
                                                       new_info),
                     r, new_info),
                 done, remote_ref)
        ELSE Turn(d, done, FALSE, "ok")

---------------------------------------------------------------------------
(* The initial state: a server freshly bound to a new local folder.  The    *)
(* remote synchronization root may already hold documents.                  *)

Writable(parent, name, folderish, digest) ==
    [parent |-> parent, name |-> name, folderish |-> folderish,
     digest |-> digest, mtime |-> 0, can_delete |-> TRUE,
     can_rename |-> TRUE, can_create_child |-> TRUE]

ReadOnly(parent, name, folderish, digest) ==
    [parent |-> parent, name |-> name, folderish |-> folderish,
     digest |-> digest, mtime |-> 0, can_delete |-> FALSE,
     can_rename |-> FALSE, can_create_child |-> FALSE]

RemoteRootOnly == (RootRef :> Writable(NoRef, RootName, TRUE, NoDigest))

\* The remote trees a binding is made on.
FreshRemoteTrees ==
    { RemoteRootOnly,
      RemoteRootOnly @@ ("r1" :> Writable(RootRef, "a", FALSE, "d1")) }

\* The remote trees of the bindings whose first passes are over.
SyncedRemoteTrees ==
    { RemoteRootOnly @@ ("r1" :> Writable(RootRef, "a", TRUE, NoDigest))
                     @@ ("r2" :> Writable("r1", "b", FALSE, "d1")),
      RemoteRootOnly @@ ("r1" :> ReadOnly(RootRef, "a", TRUE, NoDigest))
                     @@ ("r2" :> ReadOnly("r1", "b", FALSE, "d1")) }

InitLocalTree ==
    (Root :> [folderish |-> TRUE, digest |-> NoDigest, mtime |-> 0])

\* The local path of a synchronized document: the names below the root.
RECURSIVE LocalPathOf(_, _)
LocalPathOf(r, ref) ==
    IF ref = RootRef THEN Root
    ELSE Append(LocalPathOf(r, r[ref].parent), r[ref].name)

\* The local tree once every document of r has been downloaded.
SyncedLocalTree(r) ==
    [path \in {LocalPathOf(r, ref) : ref \in DOMAIN r} |->
        LET ref == CHOOSE c \in DOMAIN r : LocalPathOf(r, c) = path
        IN  [folderish |-> r[ref].folderish, digest |-> r[ref].digest,
             mtime |-> 0]]

\* Controller.bind_server: the root row of the new binding.
BoundRootPair(fs, r) ==
    update_state(NewPair(LocalGetInfo(fs, Root), RemoteGetInfo(r, RootRef)),
                 "synchronized", "synchronized")

\* The table once every document of r has been synchronized.
SyncedTable(fs, r) ==
    LET refs == InOrder(DOMAIN r, RefOrder)
    IN  [k \in 1..Len(refs) |->
            update_state(NewPair(LocalGetInfo(fs, LocalPathOf(r, refs[k])),
                                 RemoteGetInfo(r, refs[k])),
                         "synchronized", "synchronized")]

\* Both trees are fully scanned and synchronized: every file and every
\* document has its row, every row binds a file to a document under the
\* same parent, is synchronized, and holds what the two sides hold now.
RowInSync(d, fs, r, i) ==
    /\ ~d[i].dead /\ ~d[i].in_error
    /\ d[i].pair_state = "synchronized"
    /\ d[i].local_state = "synchronized" /\ d[i].remote_state = "synchronized"
    /\ d[i].local_path \in DOMAIN fs
    /\ d[i].remote_ref \in DOMAIN r
    /\ d[i].folderish = fs[d[i].local_path].folderish
    /\ d[i].folderish = r[d[i].remote_ref].folderish
    /\ d[i].local_digest = fs[d[i].local_path].digest
    /\ d[i].remote_digest = r[d[i].remote_ref].digest
    /\ d[i].local_digest = d[i].remote_digest
    /\ d[i].last_local_updated >= fs[d[i].local_path].mtime
    /\ d[i].last_remote_updated >= r[d[i].remote_ref].mtime
    /\ d[i].remote_name = r[d[i].remote_ref].name
    /\ d[i].remote_parent_ref = r[d[i].remote_ref].parent
    /\ d[i].local_path # Root =>
          \E j \in 1..Len(d) : /\ d[j].local_path = d[i].local_parent_path
                                /\ d[j].remote_ref = d[i].remote_parent_ref

InSync(d, fs, r) ==
    /\ \A i \in 1..Len(d) : RowInSync(d, fs, r, i)
    /\ \A path \in DOMAIN fs : \E i \in 1..Len(d) : d[i].local_path = path
    /\ \A ref \in DOMAIN r : \E i \in 1..Len(d) : d[i].remote_ref = ref
    /\ Len(d) = Cardinality(DOMAIN fs)
    /\ Len(d) = Cardinality(DOMAIN r)

\* Row j apart, the two trees are fully scanned and synchronized: the file
\* of row j is on the disk under no other path, and no other change waits
\* on either side.
NowhereElse(d, fs, r, j) ==
    /\ \A k \in LiveIdx(d) \ {j} : RowInSync(d, fs, r, k)
    /\ \A path \in DOMAIN fs : \E k \in LiveIdx(d) : d[k].local_path = path
    /\ \A ref \in DOMAIN r : \E k \in LiveIdx(d) : d[k].remote_ref = ref

\* The files that are synchronized with a document of made which can be
\* deleted and is as the row knows it, and that are no more in their
\* folder on the disk (deleted, not moved or renamed), nothing else being
\* changed on either side: the path and the ref of each.
GoneFiles(d, fs, r, made) ==
    {<<d[i].local_path, d[i].remote_ref>> :
        i \in {j \in LiveIdx(d) :
                  /\ NowhereElse(d, fs, r, j)
                  /\ d[j].pair_state = "synchronized" /\ ~d[j].in_error
                  /\ ~d[j].folderish
                  /\ d[j].local_path # NoPath
                  /\ d[j].local_path \notin DOMAIN fs
                  /\ d[j].local_parent_path \in LocalFolders(fs)
                  /\ d[j].remote_ref \in made \cap DOMAIN r
                  /\ r[d[j].remote_ref].can_delete
                  /\ r[d[j].remote_ref].digest = d[j].remote_digest
                  /\ r[d[j].remote_ref].name = d[j].remote_name
                  /\ r[d[j].remote_ref].parent = d[j].remote_parent_ref}}

NoPass == [checkpoint |-> <<NoTime, NoRef>>, local_scan_is_done |-> FALSE,
           synchronized |-> 0, pair |-> 0, disturbed |-> FALSE,
           candidates |-> <<>>]

\* What the pass did so far.  A pass is calm when it ran without external
\* change, without failure and without a pair in its error cooldown.  calm:
\* how many of the calm passes since the last external change or failure
\* left a pair pending.  seen: the ref and the date of the events of the
\* summary that the incremental update has gone through; stale: an event
\* older than one of seen for the same ref has changed the table.
\* attempts: the calls of synchronize_one made by synchronize; err: how the
\* last of them ended ("none" before the first); failed: the row that the
\* last of them left blacklisted (0 when it did not fail, or when the row
\* was deleted); neterr: a network error other than HTTP 500 or 403 on a
\* single pair was raised in the pass and _handle_network_error has not run
\* since; agreed: the pair_state the pair of the last call had after its
\* refresh, when its file and its document were there with equal digests
\* ("none" otherwise), and ref, its remote_ref; insync: the pass started on
\* a table and two trees that were fully scanned and synchronized; made: the
\* documents the resolver has created on the server since the binding (kept
\* from pass to pass); gone: the path and the ref of the files that, when
\* the pass started, were synchronized with a document of made and missing
\* on the disk; ranked: the list the last re-ranking returned; delayed: the
\* remote_ref of the pairs whose handler has swallowed an I/O error in the
\* pass.
NoHist == [refresh_done |-> FALSE, local_scans |-> 0, fetched |-> FALSE,
           calm |-> 0, seen |-> {}, stale |-> FALSE,
           attempts |-> 0, err |-> "none", failed |-> 0, neterr |-> FALSE,
           agreed |-> "none", ref |-> NoRef, insync |-> FALSE,
           made |-> {}, gone |-> {}, ranked |-> <<>>, delayed |-> {}]

\* The content of a PID file that does not exist.
NoPid == 0

Pids == 1..MaxProcs

\* A process that calls loop(): where it is, the pid it read in the PID
\* file, loop_count, why it left the while loop, whether it has called
\* os.unlink on the PID file and notify_sync_stopped.
NoProc == [pc |-> "start", pid |-> NoPid, loop_count |-> 0, cause |-> "none",
           unlinked |-> FALSE, stopped |-> FALSE]

\* A server freshly bound, or a binding whose first passes are over.
InitSync ==
    /\ \/ /\ rfs \in FreshRemoteTrees
          /\ lfs = InitLocalTree
          /\ db = <<BoundRootPair(lfs, rfs)>>
          /\ binding = [exists |-> TRUE, last_sync_date |-> NoTime,
                        last_root_definitions |-> NoRef]
       \/ /\ rfs \in SyncedRemoteTrees
          /\ lfs = SyncedLocalTree(rfs)
          /\ db = SyncedTable(lfs, rfs)
          /\ binding = [exists |-> TRUE, last_sync_date |-> 0,
                        last_root_definitions |-> RootRef]
    /\ rlog = <<>>
    /\ now = 0
    /\ dirty = FALSE
    /\ pc = "idle"
    /\ pass = NoPass
    /\ summary = <<>>
    /\ refreshed = {}
    /\ hist = NoHist

InitLock ==
    /\ pidfile = NoPid
    /\ proc = [p \in Pids |-> NoProc]
    /\ alive = Pids
    /\ stopfile = {}

Init == InitSync /\ InitLock

---------------------------------------------------------------------------
(* The environment: the user edits the local folder, other clients edit    *)
(* the documents of the server.  Each edit is one tick of the clock.        *)

\* Where in a pass an external edit can fall.
Interruptible ==
    pc \in {"idle", "synchronize"}

Tick(fs, r, log) ==
    /\ now < MaxClock
    /\ Interruptible
    /\ now' = now + 1
    /\ lfs' = fs
    /\ rfs' = r
    /\ rlog' = log
    /\ pass' = IF pc = "idle" THEN pass ELSE [pass EXCEPT !.disturbed = TRUE]
    /\ hist' = [hist EXCEPT !.calm = 0]
    /\ UNCHANGED <<db, dirty, binding, pc, summary, refreshed>>
    /\ UNCHANGED lockVars

\* The height of the subtree at path.
LocalHeight(fs, path) ==
    Max({Len(c) - Len(path) : c \in LocalSubtree(fs, path)})

\* A new file, a new folder, or a folder moved in with a file in it.
UserCreates ==
    \E parent \in LocalFolders(lfs), name \in PlainNames,
       kind \in {"file", "folder", "tree"} :
        LET path == Append(parent, name)
            made == LocalPut(lfs, path, kind # "file",
                             IF kind = "file" THEN "d1" ELSE NoDigest, now + 1)
        IN  /\ Len(path) + (IF kind = "tree" THEN 1 ELSE 0) <= MaxDepth
            /\ path \notin DOMAIN lfs
            /\ Tick(IF kind = "tree"
                    THEN LocalPut(made, Append(path, "a"), FALSE, "d1", now + 1)
                    ELSE made, rfs, rlog)

UserModifies ==
    \E path \in DOMAIN lfs, digest \in Digests :
        /\ ~lfs[path].folderish
        /\ digest # lfs[path].digest
        /\ Tick(LocalPut(lfs, path, FALSE, digest, now + 1), rfs, rlog)

UserDeletes ==
    \E path \in DOMAIN lfs : Tick(LocalDelete(lfs, path), rfs, rlog)

\* A rename in place or a move under another folder.
UserMoves ==
    \E path \in DOMAIN lfs \ {Root}, parent \in LocalFolders(lfs),
       name \in PlainNames :
        /\ (parent = Front(path)) # (name = Last(path))
        /\ ~IsPrefix(path, parent)
        /\ Append(parent, name) \notin DOMAIN lfs
        /\ Len(parent) + 1 + LocalHeight(lfs, path) <= MaxDepth
        /\ Tick(LocalRelocate(lfs, path, Append(parent, name)), rfs, rlog)

RemoteFolders(r) == {c \in DOMAIN r : r[c].folderish}

RemoteDepth(r, ref) == Len(RemotePathOf(r, ref)) - 1

RemoteHeight(r, ref) ==
    Max({RemoteDepth(r, c) - RemoteDepth(r, ref) : c \in RemoteSubtree(r, ref)})

Event(ref, deleted) ==
    Append(rlog, [eventDate |-> now + 1, ref |-> ref, deleted |-> deleted])

ServerCreates ==
    \E parent \in RemoteFolders(rfs), name \in PlainNames,
       kind \in {NoDigest, "d1"} :
        LET ref == FreshRef(UsedRefs(db, rfs))
        IN  /\ RemoteDepth(rfs, parent) < MaxDepth
            /\ ref # NoRef
            /\ Tick(lfs,
                    RemotePut(rfs, ref,
                        [Writable(parent, name, kind = NoDigest, kind)
                            EXCEPT !.mtime = now + 1]),
                    Event(ref, FALSE))

\* The contents another client can give a document: those of Digests, and
\* one that no local edit produces.
ServerDigests == Digests \cup {"d3"}

ServerModifies ==
    \E ref \in DOMAIN rfs, digest \in ServerDigests :
        /\ ~rfs[ref].folderish
        /\ digest # rfs[ref].digest
        /\ Tick(lfs, [rfs EXCEPT ![ref].digest = digest,
                                 ![ref].mtime = now + 1],
                Event(ref, FALSE))

ServerDeletes ==
    \E ref \in DOMAIN rfs :
        Tick(lfs, RemoteDelete(rfs, ref), Event(ref, TRUE))

\* A rename in place or a move under another folder.
ServerMoves ==
    \E ref \in DOMAIN rfs \ {RootRef}, parent \in RemoteFolders(rfs),
       name \in PlainNames :
        /\ (parent = rfs[ref].parent) # (name = rfs[ref].name)
        /\ parent \notin RemoteSubtree(rfs, ref)
        /\ RemoteDepth(rfs, parent) + 1 + RemoteHeight(rfs, ref) <= MaxDepth
        /\ Tick(lfs, [rfs EXCEPT ![ref].parent = parent, ![ref].name = name,
                                 ![ref].mtime = now + 1],
                Event(ref, FALSE))

\* The cooldown of the blacklisted pairs is over (error_skip_period).
CooldownEnds ==
    /\ pc = "idle"
    /\ \E i \in 1..Len(db) : db[i].in_error
    /\ db' = [i \in 1..Len(db) |-> [db[i] EXCEPT !.in_error = FALSE]]
    /\ UNCHANGED <<lfs, rfs, rlog, now, dirty, binding, pc, pass, summary,
                   refreshed, hist>>
    /\ UNCHANGED lockVars

---------------------------------------------------------------------------
(* One pass of update_synchronize_server, step by step.                     *)

\* No pair of the table is pending.
Converged(d) == \A i \in 1..Len(d) : d[i].pair_state = "synchronized"

\* The number of changes above which the server sets hasTooManyChanges.
ChangeLimit == 2

\* RemoteFileSystemClient.get_changes: the events after the cursor, oldest
\* first, each with the item as the server sees it now.
FetchedChanges ==
    LET events == SelectSeq(rlog, LAMBDA e :
                                e.eventDate > binding.last_sync_date)
    IN  [k \in 1..Len(events) |->
            [eventDate |-> events[k].eventDate,
             fileSystemItemId |-> events[k].ref,
             fileSystemItem |-> IF events[k].deleted THEN NoRemoteInfo
                                ELSE RemoteGetInfo(rfs, events[k].ref)]]

\* activeSynchronizationRootDefinitions of the summary.
RootDefinitions == IF RootRef \in DOMAIN rfs THEN RootRef ELSE NoRef

EnvUnchanged == UNCHANGED <<lfs, rfs, rlog, now>>

\* A network error at a remote call: an external event as well.
NetworkDown ==
    /\ now < MaxClock
    /\ now' = now + 1
    /\ UNCHANGED <<lfs, rfs, rlog>>

\* _get_remote_changes succeeds (lines 1323-1346, up to the choice of the
\* remote refresh).
StartPass ==
    /\ pc = "idle"
    /\ binding.exists
    /\ LET first_pass == binding.last_sync_date = NoTime
           changes == FetchedChanges
           full == first_pass \/ Len(changes) > ChangeLimit
       IN  /\ pass' = [NoPass EXCEPT !.checkpoint = <<now, RootDefinitions>>]
           /\ summary' = IF full THEN <<>> ELSE SortedChanges(changes)
           /\ pc' = IF full THEN "scan_remote"
                    ELSE IF changes = <<>> THEN "checkpoint"
                    ELSE "update_remote_states"
           /\ hist' = [NoHist EXCEPT !.fetched = TRUE,
                                     !.refresh_done = ~full /\ changes = <<>>,
                                     !.calm = hist.calm,
                                     !.insync = InSync(db, lfs, rfs),
                                     !.made = hist.made,
                                     !.gone = GoneFiles(db, lfs, rfs,
                                                        hist.made)]
    /\ refreshed' = {}
    /\ UNCHANGED <<db, dirty, binding>>
    /\ EnvUnchanged
    /\ UNCHANGED lockVars

\* The fetch fails and the cursor is moved to the time of the failure.
FetchFailsAdvances ==
    /\ pc = "idle"
    /\ binding.exists
    /\ NetworkDown
    /\ pass' = NoPass
    /\ hist' = [NoHist EXCEPT !.neterr = TRUE, !.made = hist.made]
    /\ pc' = "network_error"
    /\ binding' = [binding EXCEPT !.last_sync_date = now']
    /\ UNCHANGED <<db, dirty, summary, refreshed>>
    /\ UNCHANGED lockVars

\* _get_remote_changes raises a network error.
FetchFails ==
    /\ pc = "idle"
    /\ binding.exists
    /\ NetworkDown
    /\ pass' = NoPass
    /\ hist' = [NoHist EXCEPT !.neterr = TRUE, !.made = hist.made]
    /\ pc' = "network_error"
    /\ UNCHANGED <<db, dirty, binding, summary, refreshed>>
    /\ UNCHANGED lockVars

\* scan_remote, the full remote scan of the pass.
ScanRemoteEnds(res) ==
    /\ db' = res.db
    /\ dirty' = (res.err # "ok")
    /\ pc' = IF res.err = "ok" THEN "checkpoint" ELSE "crashed"
    /\ hist' = [hist EXCEPT !.refresh_done = (res.err = "ok")]

ScanRemote ==
    /\ pc = "scan_remote"
    /\ ScanRemoteEnds(scan_remote(db, rfs))
    /\ UNCHANGED <<binding, pass, summary, refreshed>>
    /\ EnvUnchanged
    /\ UNCHANGED lockVars

\* The event the loop of _update_remote_states comes to is older than an
\* event for the same ref that the loop has gone through.
OlderEvent ==
    \E e \in hist.seen : /\ e[1] = Head(summary).fileSystemItemId
                         /\ e[2] > Head(summary).eventDate

\* One turn of _update_remote_states.
ApplyChangeEnds(turn) ==
    /\ db' = turn.db
    /\ dirty' = (~turn.commit /\ (dirty \/ turn.db # db))
    /\ refreshed' = turn.refreshed
    /\ pc' = IF turn.err # "ok" THEN "crashed"
             ELSE IF Tail(summary) = <<>> THEN "checkpoint"
             ELSE "update_remote_states"
    /\ hist' = [hist EXCEPT
                   !.refresh_done = (turn.err = "ok" /\ Tail(summary) = <<>>),
                   !.seen = @ \cup {<<Head(summary).fileSystemItemId,
                                      Head(summary).eventDate>>},
                   !.stale = @ \/ (OlderEvent /\ turn.db # db)]

ApplyChange ==
    /\ pc = "update_remote_states"
    /\ ApplyChangeEnds(UpdateRemoteStatesTurn(db, rfs, refreshed,
                                              Head(summary)))
    /\ summary' = Tail(summary)
    /\ UNCHANGED <<binding, pass>>
    /\ EnvUnchanged
    /\ UNCHANGED lockVars

\* The network error of the remote refresh is swallowed: the pass goes on
\* with its checkpoint.
RefreshFailsSwallowed ==
    /\ pc \in {"scan_remote", "update_remote_states"}
    /\ NetworkDown
    /\ pc' = "checkpoint"
    /\ hist' = [hist EXCEPT !.calm = 0]
    /\ UNCHANGED <<db, dirty, binding, pass, summary, refreshed>>
    /\ UNCHANGED lockVars

\* A remote call of the remote refresh raises a network error.
RefreshFails ==
    /\ pc \in {"scan_remote", "update_remote_states"}
    /\ NetworkDown
    /\ pc' = "network_error"
    /\ hist' = [hist EXCEPT !.calm = 0, !.neterr = TRUE]
    /\ UNCHANGED <<db, dirty, binding, pass, summary, refreshed>>
    /\ UNCHANGED lockVars

\* _checkpoint
Checkpoint ==
    /\ pc = "checkpoint"
    /\ binding' = [binding EXCEPT !.last_sync_date = pass.checkpoint[1],
                                  !.last_root_definitions = pass.checkpoint[2]]
    /\ db' = Commit(db)
    /\ dirty' = FALSE
    /\ pc' = "scan_local"
    /\ UNCHANGED <<pass, summary, refreshed, hist>>
    /\ EnvUnchanged
    /\ UNCHANGED lockVars

\* scan_local after the checkpoint, and the unbinding when the root folder
\* is gone (lines 1359-1373).
ScanLocalEnds(res) ==
    /\ db' = IF res.err = "notfound" THEN <<>> ELSE res.db
    /\ dirty' = (res.err = "exception")
    /\ binding' = IF res.err = "notfound"
                  THEN [binding EXCEPT !.exists = FALSE] ELSE binding
    /\ pc' = CASE res.err = "ok" -> "synchronize"
               [] res.err = "notfound" -> "idle"
               [] OTHER -> "crashed"
    /\ pass' = [pass EXCEPT !.local_scan_is_done = (res.err = "ok")]
    /\ hist' = [hist EXCEPT !.local_scans = @ + 1]

ScanLocal ==
    /\ pc = "scan_local"
    /\ ScanLocalEnds(scan_local(db, lfs))
    /\ UNCHANGED <<summary, refreshed>>
    /\ EnvUnchanged
    /\ UNCHANGED lockVars

\* The file and the document of the pair are there, with equal digests in
\* the row.
SidesAgree(p, fs, r) ==
    /\ p.local_path \in DOMAIN fs
    /\ p.remote_ref \in DOMAIN r
    /\ p.local_digest = p.remote_digest

\* A resolver loop that does not look at its limit.
SyncRefreshUnlimited ==
    /\ pc = "synchronize"
    /\ \E i \in SelectedPending(db) :
        /\ db' = SyncRefreshed(db, lfs, rfs, i)
        /\ pass' = [pass EXCEPT !.pair = i]
        /\ hist' = [hist EXCEPT
                      !.attempts = @ + 1,
                      !.failed = 0,
                      !.agreed = IF SidesAgree(db'[i], lfs, rfs)
                                 THEN db'[i].pair_state ELSE "none",
                      !.ref = db'[i].remote_ref]
    /\ pc' = "handler"
    /\ UNCHANGED <<dirty, binding, summary, refreshed>>
    /\ EnvUnchanged
    /\ UNCHANGED lockVars

\* synchronize picks a pending pair; synchronize_one refreshes it and
\* commits (lines 1016-1045 and 544-574).
SyncRefresh ==
    /\ pc = "synchronize"
    /\ pass.synchronized < MaxSyncStep
    /\ \E i \in SelectedPending(db) :
        /\ db' = SyncRefreshed(db, lfs, rfs, i)
        /\ pass' = [pass EXCEPT !.pair = i]
        /\ hist' = [hist EXCEPT
                      !.attempts = @ + 1,
                      !.failed = 0,
                      !.agreed = IF SidesAgree(db'[i], lfs, rfs)
                                 THEN db'[i].pair_state ELSE "none",
                      !.ref = db'[i].remote_ref]
    /\ pc' = "handler"
    /\ UNCHANGED <<dirty, binding, summary, refreshed>>
    /\ EnvUnchanged
    /\ UNCHANGED lockVars

\* The candidates the move detector can return as the best one.
BestOf(d, i) ==
    IF d[i].pair_state \in {"locally_created", "locally_deleted"}
    THEN BestChoices(d, i) ELSE {0}

\* The rowid order is kept by session.commit(): the place of row i of d
\* in the committed table, 0 when the row is deleted.
RowAfterCommit(d, i) ==
    IF d[i].dead THEN 0 ELSE Cardinality({j \in 1..i : ~d[j].dead})

\* A synchronize whose except branches commit without setting
\* last_sync_error_date.
SyncHandleEndsUnmarked(out) ==
    /\ lfs' = out.lfs
    /\ rfs' = out.rfs
    /\ db' = IF out.err = "neterr" THEN out.db ELSE Commit(out.db)
    /\ dirty' = (out.err = "neterr" /\ out.db # db)
    /\ pass' = [pass EXCEPT
                  !.pair = 0,
                  !.synchronized = IF out.err \in {"ok", "ioerror"}
                                   THEN @ + 1 ELSE @,
                  !.disturbed = @ \/ out.err # "ok"]
    /\ pc' = IF out.err = "neterr" THEN "network_error" ELSE "synchronize"
    /\ hist' = [hist EXCEPT
                  !.err = out.err,
                  !.failed = IF out.err = "exception"
                             THEN RowAfterCommit(out.db, pass.pair) ELSE 0,
                  !.neterr = @ \/ out.err = "neterr",
                  !.made = @ \cup (DOMAIN out.rfs \ DOMAIN rfs),
                  !.delayed = IF out.err = "ioerror"
                              THEN @ \cup {db[pass.pair].remote_ref} ELSE @]

\* A synchronize_one that returns without its last commit.
SyncHandleEndsUncommitted(out) ==
    /\ lfs' = out.lfs
    /\ rfs' = out.rfs
    /\ db' = IF out.err = "exception"
             THEN Commit([out.db EXCEPT ![pass.pair].in_error = TRUE])
             ELSE out.db
    /\ dirty' = (out.err # "exception" /\ out.db # db)
    /\ pass' = [pass EXCEPT
                  !.pair = 0,
                  !.synchronized = IF out.err \in {"ok", "ioerror"}
                                   THEN @ + 1 ELSE @,
                  !.disturbed = @ \/ out.err # "ok"]
    /\ pc' = IF out.err = "neterr" THEN "network_error" ELSE "synchronize"
    /\ hist' = [hist EXCEPT
                  !.err = out.err,
                  !.failed = IF out.err = "exception"
                             THEN RowAfterCommit(out.db, pass.pair) ELSE 0,
                  !.neterr = @ \/ out.err = "neterr",
                  !.made = @ \cup (DOMAIN out.rfs \ DOMAIN rfs),
                  !.delayed = IF out.err = "ioerror"
                              THEN @ \cup {db[pass.pair].remote_ref} ELSE @]

\* The handler of the pair runs; synchronize counts the pair, or blacklists
\* it, or lets a network error through (lines 576-589 and 1047-1070).
SyncHandleEnds(out) ==
    /\ lfs' = out.lfs
    /\ rfs' = out.rfs
    /\ db' = CASE out.err \in {"ok", "ioerror"} -> Commit(out.db)
               [] out.err = "exception" ->
                    Commit([out.db EXCEPT ![pass.pair].in_error = TRUE])
               [] OTHER -> out.db
    /\ dirty' = (out.err = "neterr" /\ out.db # db)
    /\ pass' = [pass EXCEPT
                  !.pair = 0,
                  !.synchronized = IF out.err \in {"ok", "ioerror"}
                                   THEN @ + 1 ELSE @,
                  !.disturbed = @ \/ out.err # "ok"]
    /\ pc' = IF out.err = "neterr" THEN "network_error" ELSE "synchronize"
    /\ hist' = [hist EXCEPT
                  !.err = out.err,
                  !.failed = IF out.err = "exception"
                             THEN RowAfterCommit(out.db, pass.pair) ELSE 0,
                  !.neterr = @ \/ out.err = "neterr",
                  !.made = @ \cup (DOMAIN out.rfs \ DOMAIN rfs),
                  !.delayed = IF out.err = "ioerror"
                              THEN @ \cup {db[pass.pair].remote_ref} ELSE @]

SyncHandle ==
    /\ pc = "handler"
    /\ \E best \in BestOf(db, pass.pair) :
        SyncHandleEnds(SyncDispatch(db, lfs, rfs, pass.pair, best))
    /\ UNCHANGED <<rlog, now, binding, summary, refreshed>>
    /\ UNCHANGED lockVars

\* The handler of the pair is _synchronize_remotely_modified and it is to
\* download the content: its remote call, stream_content, is inside the
\* try of lines 606-658.
StreamsContent(d, fs, i) ==
    /\ d[i].pair_state = "remotely_modified"
    /\ d[i].remote_digest # d[i].local_digest
    /\ d[i].local_digest # NoDigest
    /\ d[i].local_path \in DOMAIN fs

\* stream_content fails with urllib2.URLError, urllib2.HTTPError or
\* socket.error, which are IOError: the except clause of line 655 takes the
\* error for a concurrent file access, the handler returns and synchronize
\* counts the pair.
DownloadFails ==
    /\ pc = "handler"
    /\ StreamsContent(db, lfs, pass.pair)
    /\ NetworkDown
    /\ pc' = "synchronize"
    /\ pass' = [pass EXCEPT !.pair = 0, !.synchronized = @ + 1,
                            !.disturbed = TRUE]
    /\ hist' = [hist EXCEPT !.err = "ioerror", !.failed = 0, !.neterr = TRUE,
                            !.delayed = @ \cup {db[pass.pair].remote_ref}]
    /\ UNCHANGED <<db, dirty, binding, summary, refreshed>>
    /\ UNCHANGED lockVars

\* The handler of the pair is to delete the file or the folder of the pair
\* on the disk: _synchronize_remotely_deleted (line 789), or
\* _synchronize_remotely_modified before it puts the new content in place
\* (line 614).
DeletesLocally(d, fs, i) ==
    \/ d[i].pair_state = "remotely_deleted" /\ d[i].local_path \in DOMAIN fs
    \/ StreamsContent(d, fs, i) /\ d[i].remote_ref \in DOMAIN rfs

\* Another process holds the file open.
FileInUse ==
    /\ now < MaxClock
    /\ now' = now + 1
    /\ UNCHANGED <<lfs, rfs, rlog>>

\* local_client.delete fails with an IOError (WindowsError) because the
\* file is in use: the except clause of line 655 or of line 793 logs it,
\* the handler returns and synchronize counts the pair.
LocalDeleteFails ==
    /\ pc = "handler"
    /\ DeletesLocally(db, lfs, pass.pair)
    /\ FileInUse
    /\ pc' = "synchronize"
    /\ pass' = [pass EXCEPT !.pair = 0, !.synchronized = @ + 1,
                            !.disturbed = TRUE]
    /\ hist' = [hist EXCEPT !.err = "ioerror", !.failed = 0,
                            !.delayed = @ \cup {db[pass.pair].remote_ref}]
    /\ UNCHANGED <<db, dirty, binding, summary, refreshed>>
    /\ UNCHANGED lockVars

\* _synchronize_remotely_modified has streamed the content to a temporary
\* file and deleted the local file (line 614); local_client.rename of the
\* temporary file (lines 615-616) fails with an IOError: the except clause
\* of line 655 logs it, the handler returns and synchronize counts the
\* pair.  The temporary file, which the scans ignore, is left behind.
LocalRenameFails ==
    /\ pc = "handler"
    /\ StreamsContent(db, lfs, pass.pair)
    /\ db[pass.pair].remote_ref \in DOMAIN rfs
    /\ now < MaxClock
    /\ now' = now + 1
    /\ lfs' = LocalDelete(lfs, db[pass.pair].local_path)
    /\ pc' = "synchronize"
    /\ pass' = [pass EXCEPT !.pair = 0, !.synchronized = @ + 1,
                            !.disturbed = TRUE]
    /\ hist' = [hist EXCEPT !.err = "ioerror", !.failed = 0,
                            !.delayed = @ \cup {db[pass.pair].remote_ref}]
    /\ UNCHANGED <<db, dirty, binding, summary, refreshed, rfs, rlog>>
    /\ UNCHANGED lockVars

\* _synchronize_locally_created on row i calls no remote client: no move is
\* detected and the parent pair does not permit the creation of a child
\* (the else branch of lines 709-717).
CreatesNothing(d, i) ==
    /\ d[i].pair_state = "locally_created"
    /\ BestCandidates(d, i) = {}
    /\ \E k \in LiveIdx(d) :
          /\ d[k].local_path = d[i].local_parent_path
          /\ \A j \in LiveIdx(d) :
                d[j].local_path = d[i].local_parent_path => k <= j
          /\ d[k].remote_can_create_child # Stored(TRUE)

\* A remote call of the handler fails before it changed anything: with HTTP
\* status 500 or 403 (the pair is blacklisted), or with another network
\* error (the pass is interrupted).  Inside the try of
\* _synchronize_remotely_modified only the network errors that are not
\* IOError (Unauthorized, httplib.HTTPException) come out of the handler.
HandlerFails ==
    /\ pc = "handler"
    /\ NetworkDown
    /\ db[pass.pair].remote_ref # NoRef
    /\ ~CreatesNothing(db, pass.pair)
    /\ db[pass.pair].pair_state \in HandledStates
    /\ \E unexpected_status \in
            IF StreamsContent(db, lfs, pass.pair) THEN {FALSE} ELSE BOOLEAN :
        /\ db' = IF unexpected_status
                 THEN [db EXCEPT ![pass.pair].in_error = TRUE] ELSE db
        /\ pc' = IF unexpected_status THEN "synchronize" ELSE "network_error"
        /\ hist' = [hist EXCEPT
                      !.err = IF unexpected_status THEN "http" ELSE "neterr",
                      !.failed = IF unexpected_status THEN pass.pair ELSE 0,
                      !.neterr = @ \/ ~unexpected_status]
    /\ pass' = [pass EXCEPT !.pair = 0, !.disturbed = TRUE]
    /\ UNCHANGED <<dirty, binding, summary, refreshed>>
    /\ UNCHANGED lockVars

\* The pass that ends ran without external change, without failure and
\* without a pair in its error cooldown.
CalmPass == ~pass.disturbed /\ \A i \in 1..Len(db) : ~db[i].in_error

\* synchronize returns; the pass returns; loop commits (line 1188).
EndPass ==
    /\ pc = "synchronize"
    /\ pass.synchronized >= MaxSyncStep \/ SelectedPending(db) = {}
    /\ pc' = "idle"
    /\ db' = Commit(db)
    /\ dirty' = FALSE
    /\ pass' = NoPass
    /\ hist' = [NoHist EXCEPT
                   !.calm = IF ~CalmPass THEN 0
                            ELSE IF Converged(Commit(db)) THEN hist.calm
                            ELSE Min({hist.calm + 1, MaxCalm}),
                   !.made = hist.made]
    /\ refreshed' = {}
    /\ UNCHANGED <<binding, summary>>
    /\ EnvUnchanged
    /\ UNCHANGED lockVars

\* An except branch that returns without the late local scan.
HandleNetworkErrorUnscanned ==
    /\ pc = "network_error"
    /\ db' = Commit(db)
    /\ dirty' = FALSE
    /\ pc' = "idle"
    /\ hist' = [hist EXCEPT !.neterr = FALSE]
    /\ UNCHANGED <<binding, pass, summary, refreshed>>
    /\ EnvUnchanged
    /\ UNCHANGED lockVars

\* The except branch of the pass (lines 1394-1402), then the commit of loop.
\* An error of the late local scan is not caught in the pass.
HandleNetworkErrorEnds(res) ==
    /\ db' = res.db
    /\ dirty' = (res.err # "ok")
    /\ pc' = IF res.err = "ok" THEN "idle" ELSE "crashed"
    /\ hist' = [hist EXCEPT
                  !.local_scans = IF pass.local_scan_is_done THEN @ ELSE @ + 1,
                  !.neterr = FALSE]

HandleNetworkError ==
    /\ pc = "network_error"
    /\ HandleNetworkErrorEnds(IF pass.local_scan_is_done
                              THEN Ended(Commit(db), "ok")
                              ELSE scan_local(db, lfs))
    /\ UNCHANGED <<binding, pass, summary, refreshed>>
    /\ EnvUnchanged
    /\ UNCHANGED lockVars

Environment ==
    \/ UserCreates
    \/ UserModifies
    \/ UserDeletes
    \/ UserMoves
    \/ ServerCreates
    \/ ServerModifies
    \/ ServerDeletes
    \/ ServerMoves
    \/ CooldownEnds

Pass ==
    \/ StartPass
    \/ FetchFails
    \/ ScanRemote
    \/ ApplyChange
    \/ RefreshFails
    \/ Checkpoint
    \/ ScanLocal
    \/ SyncRefresh
    \/ SyncHandle
    \/ HandlerFails
    \/ DownloadFails
    \/ LocalDeleteFails
    \/ LocalRenameFails
    \/ EndPass
    \/ HandleNetworkError

Next == Environment \/ Pass

Spec == Init /\ [][Next]_vars

---------------------------------------------------------------------------
(* The incremental update alone, on any change summary the server can be   *)
(* made to send: up to ChangeLimit events about two files, each event a    *)
(* deletion or carrying an item of its file.                               *)

FeedRefs == {"r2", "r3"}

\* The item of file ref under folder parent, with the given content.
FeedItem(ref, parent, digest) ==
    RemoteGetInfo(RemoteRootOnly
                      @@ ("r1" :> Writable(RootRef, "a", TRUE, NoDigest))
                      @@ (ref :> Writable(parent, "b", FALSE, digest)), ref)

FeedEvents ==
    [eventDate : 1..ChangeLimit, fileSystemItemId : FeedRefs,
     fileSystemItem : {NoRemoteInfo}]
    \cup {[eventDate |-> date, fileSystemItemId |-> ref,
           fileSystemItem |-> FeedItem(ref, parent, digest)] :
              date \in 1..ChangeLimit, ref \in FeedRefs,
              parent \in {RootRef, "r1"}, digest \in Digests}

\* The summaries, as the server gives them.
FeedSummaries ==
    UNION {[1..n -> FeedEvents] : n \in 1..ChangeLimit}

\* A pass has fetched a summary and is about to apply it; the table holds
\* the folder a, with or without its file b (r2).
InitFeed ==
    /\ rfs \in {RemoteRootOnly
                   @@ ("r1" :> Writable(RootRef, "a", TRUE, NoDigest)),
                RemoteRootOnly
                   @@ ("r1" :> Writable(RootRef, "a", TRUE, NoDigest))
                   @@ ("r2" :> Writable("r1", "b", FALSE, "d1"))}
    /\ lfs = SyncedLocalTree(rfs)
    /\ db = SyncedTable(lfs, rfs)
    /\ binding = [exists |-> TRUE, last_sync_date |-> 0,
                  last_root_definitions |-> RootRef]
    /\ rlog = <<>>
    /\ now = ChangeLimit
    /\ dirty = FALSE
    /\ pc = "update_remote_states"
    /\ pass = [NoPass EXCEPT !.checkpoint = <<now, RootRef>>]
    /\ \E changes \in FeedSummaries : summary = SortedChanges(changes)
    /\ refreshed = {}
    /\ hist = [NoHist EXCEPT !.fetched = TRUE]
    /\ InitLock

NextFeed == ApplyChange

SpecFeed == InitFeed /\ [][NextFeed]_vars

---------------------------------------------------------------------------
(* The re-ranking alone, on any source and any list of candidates: a file  *)
(* or a folder, and up to MaxCandidates of four rows that have its parent,  *)
(* its name (twice) or neither, each folder with any children names.       *)

\* The path of the source and the paths of the candidates.
RankSource == <<"a", "a">>

RankPaths == <<(<<"a", "b">>), (<<"b", "a">>), (<<"a__1", "a">>), (<<"b", "b">>)>>

\* A row of the table, known by its local side only.
RankRow(path, folderish) ==
    [BlankPair EXCEPT !.local_path = path, !.local_name = Last(path),
                      !.local_parent_path = Front(path),
                      !.folderish = folderish]

\* The rows of the children of the folder at path.
RankChildren(path, names) ==
    [k \in 1..Len(InOrder(names, NameOrder)) |->
        RankRow(Append(path, InOrder(names, NameOrder)[k]), FALSE)]

RECURSIVE RankChildrenOf(_, _)
\* The rows of the children of the first k candidates.
RankChildrenOf(kids, k) ==
    IF k = 0 THEN <<>>
    ELSE RankChildrenOf(kids, k - 1) \o RankChildren(RankPaths[k], kids[k])

\* The table: the source (row 1), the candidates (rows 2 to 5), their
\* children.
RankTable(folderish, source_kids, kids) ==
    <<RankRow(RankSource, folderish)>>
    \o [k \in 1..Len(RankPaths) |-> RankRow(RankPaths[k], folderish)]
    \o RankChildren(RankSource, source_kids)
    \o RankChildrenOf(kids, Len(RankPaths))

\* The lists of candidates: distinct rows, in any order.
RankLists ==
    {s \in UNION {[1..n -> 2..(Len(RankPaths) + 1)] : n \in 1..MaxCandidates} :
        \A k, l \in 1..Len(s) : s[k] = s[l] => k = l}

\* The children names of a folder; a file has none.
RankKids(folderish) == IF folderish THEN SUBSET PlainNames ELSE {{}}

\* _detect_local_move_or_rename is about to re-rank the candidates of the
\* source.
InitRank ==
    /\ \E folderish \in BOOLEAN :
          \E source_kids \in RankKids(folderish),
             kids \in [1..Len(RankPaths) -> RankKids(folderish)] :
              db = RankTable(folderish, source_kids, kids)
    /\ \E candidates \in RankLists :
          pass = [NoPass EXCEPT !.pair = 1, !.candidates = candidates]
    /\ pc = "rerank"
    /\ hist = NoHist
    /\ lfs = InitLocalTree
    /\ rfs = RemoteRootOnly
    /\ binding = [exists |-> TRUE, last_sync_date |-> 0,
                  last_root_definitions |-> RootRef]
    /\ rlog = <<>>
    /\ now = 0
    /\ dirty = FALSE
    /\ summary = <<>>
    /\ refreshed = {}
    /\ InitLock

\* rerank_local_rename_or_move_candidates returns.
Rerank ==
    /\ pc = "rerank"
    /\ \E ranked \in Reranked(db, pass.pair, pass.candidates) :
          hist' = [hist EXCEPT !.ranked = ranked]
    /\ pc' = "reranked"
    /\ UNCHANGED <<db, dirty, binding, pass, summary, refreshed>>
    /\ EnvUnchanged
    /\ UNCHANGED lockVars

NextRank == Rerank

SpecRank == InitRank /\ [][NextRank]_vars

---------------------------------------------------------------------------
(* The PID lock of loop(): check_running, the write of the PID file, the   *)
(* loop, the removal of the PID file.  Each file operation is one step.    *)

At(p, where) == proc[p].pc = where

Goto(p, where) == proc' = [proc EXCEPT ![p].pc = where]

SyncUnchanged == UNCHANGED syncVars

\* check_running: os.path.exists(pid_filepath) (line 1086).
CheckExists(p) ==
    /\ At(p, "start")
    /\ Goto(p, IF pidfile = NoPid THEN "write" ELSE "read")
    /\ UNCHANGED <<pidfile, alive, stopfile>>
    /\ SyncUnchanged

\* check_running: the file is opened and read (lines 1087-1088).  When it
\* is gone by then, open raises and the process ends.
ReadPid(p) ==
    /\ At(p, "read")
    /\ proc' = [proc EXCEPT
                  ![p].pc = IF pidfile = NoPid THEN "failed" ELSE "probe",
                  ![p].pid = pidfile]
    /\ alive' = IF pidfile = NoPid THEN alive \ {p} ELSE alive
    /\ UNCHANGED <<pidfile, stopfile>>
    /\ SyncUnchanged

\* check_running: psutil.Process(pid) (lines 1089-1104); loop returns when
\* the pid is one of a running nxdrive program (lines 1134-1139).
Probe(p) ==
    /\ At(p, "probe")
    /\ proc' = [proc EXCEPT
                  ![p].pc = IF proc[p].pid \in alive THEN "refused"
                            ELSE "unlink_stale",
                  ![p].pid = NoPid]
    /\ alive' = IF proc[p].pid \in alive THEN alive \ {p} ELSE alive
    /\ UNCHANGED <<pidfile, stopfile>>
    /\ SyncUnchanged

\* check_running: the stale file is removed (lines 1107-1115).
UnlinkStale(p) ==
    /\ At(p, "unlink_stale")
    /\ pidfile' = NoPid
    /\ Goto(p, "write")
    /\ UNCHANGED <<alive, stopfile>>
    /\ SyncUnchanged

\* loop: the process writes its pid (lines 1142-1148) and enters the try
\* with loop_count = 0.
WritePid(p) ==
    /\ At(p, "write")
    /\ pidfile' = p
    /\ Goto(p, "loop")
    /\ UNCHANGED <<alive, stopfile>>
    /\ SyncUnchanged

\* The process leaves the while loop: its locals are no longer read.
Leaving(where, cause) == [NoProc EXCEPT !.pc = where, !.cause = cause]

\* Another process asks the synchronizer named by the PID file to stop: it
\* creates the file stop_<pid>.
StopRequested(p) ==
    /\ pidfile = p
    /\ p \in alive
    /\ p \notin stopfile
    /\ stopfile' = stopfile \cup {p}
    /\ UNCHANGED <<pidfile, proc, alive>>
    /\ SyncUnchanged

\* A should_stop_synchronization that leaves the stop file in place.
CheckStopKeeps(p) ==
    /\ At(p, "loop")
    /\ proc' = [proc EXCEPT ![p] = IF p \in stopfile
                                   THEN Leaving("cleanup", "stop")
                                   ELSE [@ EXCEPT !.pc = "check_max"]]
    /\ UNCHANGED <<pidfile, alive, stopfile>>
    /\ SyncUnchanged

\* loop: should_stop_synchronization at the head of an iteration (lines
\* 1118-1125 and 1154-1157): the stop file, when it exists, is removed and
\* the loop is left.
CheckStop(p) ==
    /\ At(p, "loop")
    /\ proc' = [proc EXCEPT ![p] = IF p \in stopfile
                                   THEN Leaving("cleanup", "stop")
                                   ELSE [@ EXCEPT !.pc = "check_max"]]
    /\ stopfile' = stopfile \ {p}
    /\ UNCHANGED <<pidfile, alive>>
    /\ SyncUnchanged

\* loop: the test of max_loops (lines 1158-1162), with max_loops = MaxLoops.
CheckMax(p) ==
    /\ At(p, "check_max")
    /\ proc' = [proc EXCEPT
                  ![p].pc = IF proc[p].loop_count > MaxLoops
                            THEN "cleanup" ELSE "body",
                  ![p].cause = IF proc[p].loop_count > MaxLoops
                               THEN "max_loops" ELSE @]
    /\ UNCHANGED <<pidfile, alive, stopfile>>
    /\ SyncUnchanged

\* loop: one pass over the server bindings, the sleep, loop_count += 1 and
\* the commit (lines 1164-1188).
Body(p) ==
    /\ At(p, "body")
    /\ proc' = [proc EXCEPT ![p].pc = "loop", ![p].loop_count = @ + 1]
    /\ UNCHANGED <<pidfile, alive, stopfile>>
    /\ SyncUnchanged

\* loop: KeyboardInterrupt inside the try (lines 1190-1192): the session is
\* rolled back and loop goes on after the try.
LoopExits(p) ==
    /\ proc[p].pc \in {"loop", "check_max", "body"}
    /\ proc' = [proc EXCEPT ![p] = Leaving("cleanup", "interrupt")]
    /\ UNCHANGED <<pidfile, alive, stopfile>>
    /\ SyncUnchanged

\* loop: another exception raised by a pass is raised again after the
\* rollback (lines 1193-1195): loop is left at once and the process ends.
LoopRaises(p) ==
    /\ At(p, "body")
    /\ proc' = [proc EXCEPT ![p] = Leaving("raised", "exception")]
    /\ alive' = alive \ {p}
    /\ UNCHANGED <<pidfile, stopfile>>
    /\ SyncUnchanged

\* The process is killed inside the loop: it ends and leaves the PID file.
LoopDies(p) ==
    /\ proc[p].pc \in {"loop", "check_max", "body"}
    /\ proc' = [proc EXCEPT ![p] = Leaving("failed", "none")]
    /\ alive' = alive \ {p}
    /\ UNCHANGED <<pidfile, stopfile>>
    /\ SyncUnchanged

\* loop: the PID file is removed and the frontend is told that the
\* synchronization has stopped (lines 1197-1208); the process ends.
CleanPid(p) ==
    /\ At(p, "cleanup")
    /\ pidfile' = NoPid
    /\ proc' = [proc EXCEPT ![p].pc = "done", ![p].unlinked = TRUE,
                            ![p].stopped = TRUE, ![p].loop_count = 0]
    /\ alive' = alive \ {p}
    /\ UNCHANGED stopfile
    /\ SyncUnchanged

NextLock ==
    \E p \in Pids :
        \/ CheckExists(p)
        \/ ReadPid(p)
        \/ Probe(p)
        \/ UnlinkStale(p)
        \/ WritePid(p)
        \/ StopRequested(p)
        \/ CheckStop(p)
        \/ CheckMax(p)
        \/ Body(p)
        \/ LoopExits(p)
        \/ LoopRaises(p)
        \/ LoopDies(p)
        \/ CleanPid(p)

SpecLock == Init /\ [][NextLock]_vars

\* The processes inside the synchronization loop: the PID file written and
\* not yet removed.
InLoop ==
    {p \in Pids : proc[p].pc \in {"loop", "check_max", "body", "cleanup"}}

\* C1: whatever the interleaving of the processes that call loop(), at
\* most one of them is inside the synchronization loop at a time.
C1_SingletonExecution == Cardinality(InLoop) <= 1

\* Two processes are inside the loop, and the PID file names one of them.
C1_TwoInLoop ==
    Cardinality(InLoop) >= 2 /\ pidfile \in InLoop

---------------------------------------------------------------------------
(* Convergence.                                                            *)

\* C2: once the user and the server have stopped changing the trees and
\* nothing fails any more, the passes of the loop reach a state where no
\* pair is pending, and keep it: of the passes that run one after the other
\* without external change and without failure, fewer than MaxCalm leave a
\* pair pending.
C2_EventualConvergence == hist.calm < MaxCalm

\* Two passes in a row ran at rest and left a pair pending.
C2_PendingAtRest == pc = "idle" /\ hist.calm >= 2

---------------------------------------------------------------------------
(* The invariants of the table.                                            *)

\* A pair that has neither a local path nor a remote document.
Empty(p) == ~p.dead /\ p.local_path = NoPath /\ p.remote_ref = NoRef

\* C3: after every commit made by a scanner or a resolver handler, no pair
\* of the table has both its local_path and its remote_ref absent.
C3_NoEmptyPair == ~dirty => \A i \in 1..Len(db) : ~Empty(db[i])

\* A committed table holds a pair without local path and without document.
C3_EmptyPairCommitted == ~dirty /\ \E i \in 1..Len(db) : Empty(db[i])

\* The pair of the local folder that holds the local file of p.
HasLocalParent(d, p) ==
    \E j \in 1..Len(d) : ~d[j].dead /\ d[j].local_path = p.local_parent_path

\* C4: after every commit, each pair with a local_path other than the root
\* has a parent row, a pair whose local_path is its local_parent_path.
C4_LocalParentExists ==
    ~dirty => \A i \in 1..Len(db) :
                 (~db[i].dead /\ db[i].local_path \notin {NoPath, Root})
                     => HasLocalParent(db, db[i])

\* A committed table holds a pair with a local path and without parent row.
C4_LocalOrphanCommitted ==
    ~dirty /\ \E i \in 1..Len(db) :
                 /\ ~db[i].dead /\ db[i].local_path \notin {NoPath, Root}
                 /\ ~HasLocalParent(db, db[i])

\* The pair of the remote folder that holds the document of p.
HasRemoteParent(d, p) ==
    \E j \in 1..Len(d) : ~d[j].dead /\ d[j].remote_ref = p.remote_parent_ref

\* C5: after every commit, each pair other than the root that has a
\* remote_ref has a parent row, a pair whose remote_ref is its
\* remote_parent_ref.
C5_RemoteParentExists ==
    ~dirty => \A i \in 1..Len(db) :
                 (~db[i].dead /\ db[i].remote_ref \notin {NoRef, RootRef})
                     => HasRemoteParent(db, db[i])

\* A committed table holds a pair with a document and without parent row.
C5_RemoteOrphanCommitted ==
    ~dirty /\ \E i \in 1..Len(db) :
                 /\ ~db[i].dead /\ db[i].remote_ref \notin {NoRef, RootRef}
                 /\ ~HasRemoteParent(db, db[i])

\* The pairs of the root folder of the binding.
RootPairs(d) == {i \in 1..Len(d) : ~d[i].dead /\ d[i].local_path = Root}

\* C6: as long as the server binding exists, exactly one pair has the root
\* as its local_path after every commit.
C6_OneRootPair == (~dirty /\ binding.exists) => Cardinality(RootPairs(db)) = 1

\* The binding exists and the committed table holds no pair of the root.
C6_RootPairGone == ~dirty /\ binding.exists /\ RootPairs(db) = {}

---------------------------------------------------------------------------
(* The order of the steps of a pass.                                       *)

\* C7 as stated: in every pass the remote change application has run to
\* its end before the local scan of the pass; no local scan runs ahead of
\* the remote refresh.
C7_RemoteBeforeLocal == hist.local_scans > 0 => hist.refresh_done

\* C7: in every pass that no network error interrupts before the local
\* scan, the remote change application has run to its end before the local
\* scan, and the pass scans once; only the branch that handles a network
\* error runs the local scan without a completed remote refresh.
C7_RemoteBeforeLocalOnline ==
    [][(hist'.local_scans > hist.local_scans /\ pc # "network_error")
          => (hist.refresh_done /\ hist.local_scans = 0)]_vars

\* The local scan of a pass has run after the change summary was applied.
C7_ScannedAfterRefresh ==
    /\ pc = "synchronize" /\ hist.local_scans = 1
    /\ hist.refresh_done /\ refreshed # {}

\* The cursor of the binding into the change feed of the server.
Cursor == <<binding.last_sync_date, binding.last_root_definitions>>

\* C8: the cursor of the binding changes only in the checkpoint of a pass
\* whose remote refresh has run to its end without error, and then takes the
\* values of the fetched summary; a step that raises or handles a network
\* error leaves the cursor as it was.
C8_CursorAfterRefresh ==
    [][/\ Cursor' # Cursor =>
            /\ pc = "checkpoint" /\ hist.refresh_done
            /\ Cursor' = pass.checkpoint
       /\ (pc = "network_error" \/ pc' = "network_error") => Cursor' = Cursor
      ]_vars

\* The cursor has moved to the values of a summary that was applied.
C8_CursorAdvanced ==
    /\ pc = "scan_local" /\ hist.refresh_done /\ refreshed # {}
    /\ Cursor = pass.checkpoint /\ binding.last_sync_date > 0

---------------------------------------------------------------------------
(* The incremental update.                                                 *)

\* C9: when a change summary holds several events for one remote_ref, only
\* the most recent of them is applied: the turn of every older event for
\* that ref leaves the table as it was.
C9_OnlyMostRecentApplied ==
    [][(pc = "update_remote_states" /\ OlderEvent) => db' = db]_vars

\* An older event for a ref has changed the table.
C9_OlderEventApplied == hist.stale

---------------------------------------------------------------------------
(* The order in which synchronize takes the pending pairs.                 *)

\* Pair j is the pending deletion of a document that has, on the local
\* side, the name and the folder that the document of pair i has on the
\* remote side.
DeletionOfSameName(d, j, i) ==
    /\ ~d[j].dead /\ ~d[j].in_error
    /\ d[j].pair_state = "remotely_deleted"
    /\ d[j].local_path # NoPath
    /\ d[j].local_name = d[i].remote_name
    /\ d[j].remote_parent_ref = d[i].remote_parent_ref

\* The pair in the hands of the resolver is a remote creation without
\* local file yet.
CreationInHand ==
    /\ pc = "handler"
    /\ db[pass.pair].pair_state = "remotely_created"
    /\ db[pass.pair].local_path = NoPath
    /\ db[pass.pair].remote_ref # NoRef

\* The local path the new document gets when its plain name is free.
PlainPathInHand ==
    LET parent_pair == QueryFirst(db, LAMBDA p :
                           p.remote_ref = db[pass.pair].remote_parent_ref)
    IN  IF parent_pair = 0 \/ db[parent_pair].local_path = NoPath THEN NoPath
        ELSE Append(db[parent_pair].local_path, db[pass.pair].remote_name)

\* C10: when a document is remotely deleted and another one is remotely
\* created with the same name in the same folder, the pair of the deletion
\* is resolved before the pair of the creation: no deletion of that name
\* is pending when the resolver takes the creation, and the new local file
\* gets the plain name when the deleted file is gone.
C10_DeletionBeforeCreation ==
    [][CreationInHand =>
          /\ \A j \in 1..Len(db) : ~DeletionOfSameName(db, j, pass.pair)
          /\ \A k \in 1..Len(db') :
                (/\ db'[k].remote_ref = db[pass.pair].remote_ref
                 /\ db'[k].pair_state = "synchronized"
                 /\ PlainPathInHand # NoPath
                 /\ PlainPathInHand \notin DOMAIN lfs)
                    => db'[k].local_path = PlainPathInHand]_vars

\* The resolver has taken the deletion while the creation of the same name
\* in the same folder is pending.
C10_DeletionTakenFirst ==
    /\ pc = "handler"
    /\ \E i \in 1..Len(db) :
          /\ i # pass.pair /\ ~db[i].dead /\ ~db[i].in_error
          /\ db[i].pair_state # "synchronized" /\ db[i].local_path = NoPath
          /\ db[i].remote_ref \notin {NoRef, db[pass.pair].remote_ref}
          /\ DeletionOfSameName(db, pass.pair, i)

---------------------------------------------------------------------------
(* The resolver loop of synchronize.                                       *)

\* C11 as stated: one call of synchronize with limit MaxSyncStep calls the
\* resolver on at most MaxSyncStep pairs and counts at most MaxSyncStep.
C11_AtMostLimitAttempts ==
    hist.attempts <= MaxSyncStep /\ pass.synchronized <= MaxSyncStep

\* C11: one call of synchronize with limit MaxSyncStep counts at most
\* MaxSyncStep pairs, the pairs whose call of the resolver returned; the
\* calls that raised are not counted, and every call beyond MaxSyncStep
\* follows a call that raised.
C11_AtMostLimitCounted ==
    /\ pass.synchronized <= MaxSyncStep
    /\ pass.synchronized <= hist.attempts
    /\ hist.attempts > MaxSyncStep => pass.disturbed

\* The resolver is called on one pair more than the limit, after a call
\* that raised, and the count has reached the limit.
C11_AttemptBeyondLimit ==
    hist.attempts = MaxSyncStep + 1 /\ pass.synchronized = MaxSyncStep

\* C12: when the resolver fails on a pair with an exception that is not a
\* network error, or with HTTP status 500 or 403, synchronize blacklists
\* the pair (unless the handler deleted it) and commits, the error goes no
\* further, the count is unchanged and synchronize goes on with the pending
\* pairs; a pair in its cooldown is never handed to the resolver.
C12_FailedPairBlacklisted ==
    [][/\ (pc = "handler" /\ hist'.err \in {"exception", "http"}) =>
            /\ pc' = "synchronize"
            /\ ~dirty'
            /\ pass'.synchronized = pass.synchronized
            /\ hist'.failed # 0 =>
                 (db'[hist'.failed].in_error
                    /\ hist'.failed \notin SelectedPending(db'))
       /\ pc' = "handler" => ~db'[pass'.pair].in_error]_vars

\* After a failed call of the resolver has blacklisted a pair, the resolver
\* is called on another pair in the same call of synchronize.
C12_NextPairAfterFailure ==
    /\ pc = "handler"
    /\ hist.err \in {"exception", "http"}
    /\ \E i \in 1..Len(db) : i # pass.pair /\ db[i].in_error

---------------------------------------------------------------------------
(* The errors of a pass.                                                   *)

\* C13 as stated: a network error (other than HTTP 500 or 403 on a single
\* pair) raised at any point of the pass takes the pass to its except
\* branch, and the except branch notifies the frontend, invalidates the
\* client cache and returns to the loop, which goes on.
C13_NetworkErrorCaught ==
    [][/\ hist'.neterr => pc' = "network_error"
       /\ pc = "network_error" => (pc' = "idle" /\ ~hist'.neterr)]_vars

\* A network error was raised in the pass and the pass goes on with the
\* next pending pair: _handle_network_error has not run.
C13_NetworkErrorSwallowed == hist.neterr /\ pc = "synchronize"

\* C14 as stated: whenever a local scan of the pass finds the root folder
\* missing, the server binding is deleted, the deletion is committed and
\* the pass returns to the loop.
C14_MissingRootUnbinds ==
    [][(/\ hist'.local_scans > hist.local_scans
        /\ RootPair(db) # 0
        /\ ~LocalGetInfo(lfs, Root).exists)
          => (~binding'.exists /\ ~dirty' /\ pc' = "idle")]_vars

\* The local scan of the pass has found the root folder missing, the
\* server binding is still there and the error has left the pass.
C14_NotFoundEscapes ==
    /\ pc = "crashed"
    /\ hist.local_scans > 0
    /\ RootPair(db) # 0
    /\ ~LocalGetInfo(lfs, Root).exists
    /\ binding.exists

\* C15 as stated: when the resolver meets a pending pair whose pair_state
\* has no handler, the error leaves synchronize and stops the
\* synchronization.
C15_UnhandledStateIsFatal ==
    [][(pc = "handler" /\ db[pass.pair].pair_state \notin HandledStates)
          => pc' = "crashed"]_vars

\* The resolver has met a pair whose pair_state has no handler, the pair is
\* blacklisted and synchronize goes on.
C15_UnhandledStateBlacklisted ==
    /\ pc = "synchronize"
    /\ hist.err = "exception"
    /\ hist.failed # 0
    /\ db[hist.failed].in_error
    /\ db[hist.failed].pair_state \notin HandledStates

---------------------------------------------------------------------------
(* The end of loop().                                                      *)

\* The processes whose call of loop() wrote the PID file and has ended,
\* not counting a process that was killed.
Ended16 == {p \in Pids : proc[p].pc \in {"done", "raised"}}

\* C16 as stated: every execution of loop() that wrote the PID file has
\* removed the PID file and called notify_sync_stopped when it ends,
\* whatever made it leave the loop.
C16_CleanupOnEveryExit ==
    \A p \in Ended16 : proc[p].unlinked /\ proc[p].stopped

\* An execution of loop() has ended on an exception raised by a pass: it
\* has not called os.unlink, the PID file still holds its pid, and it has
\* not called notify_sync_stopped.
C16_RaisedWithoutCleanup ==
    \E p \in Pids :
        /\ proc[p].pc = "raised"
        /\ proc[p].cause = "exception"
        /\ ~proc[p].unlinked /\ ~proc[p].stopped
        /\ pidfile = p

\* C17 as stated: loop(max_loops = MaxLoops) makes at most MaxLoops
\* iterations.
C17_AtMostMaxLoops == \A p \in Pids : proc[p].loop_count <= MaxLoops

\* An execution of loop(max_loops = MaxLoops) has stopped on max_loops
\* after MaxLoops + 1 iterations.
C17_OneIterationMore ==
    \E p \in Pids :
        proc[p].cause = "max_loops" /\ proc[p].loop_count = MaxLoops + 1

\* C18: when the stop file of the process exists at the head of an
\* iteration, should_stop_synchronization removes the file and the loop is
\* left in that iteration, before any binding is processed.
C18_StopFileConsumed ==
    [][\A p \in Pids :
         (/\ proc[p].pc = "loop"
          /\ p \in stopfile
          /\ proc'[p].pc \notin {"loop", "failed"}
          /\ proc'[p].cause # "interrupt")
            => (/\ proc'[p].pc = "cleanup"
                /\ proc'[p].cause = "stop"
                /\ p \notin stopfile')]_vars

\* An execution of loop() has ended on its stop file, and the stop file is
\* gone.
C18_StoppedOnFile ==
    \E p \in Pids :
        /\ proc[p].pc = "done"
        /\ proc[p].cause = "stop"
        /\ p \notin stopfile

---------------------------------------------------------------------------
(* The resolver on a pair whose two sides agree.                           *)

\* The pair in hand has its file on the disk and its document on the
\* server, and the digests the refresh left in the row are equal.
BothSidesAgree ==
    pc = "handler" /\ SidesAgree(db[pass.pair], lfs, rfs)

\* The pair of the last call of the resolver is synchronized.
LastPairSynchronized(d) ==
    \E j \in 1..Len(d) :
        d[j].remote_ref = hist.ref /\ d[j].pair_state = "synchronized"

SettledOnDigests(d, i) ==
    \/ d[i].pair_state \in {"locally_modified", "conflicted"}
    \/ /\ d[i].pair_state = "remotely_modified"
       /\ ~is_remote_move(d, i).is_move
       /\ d[i].remote_name = d[i].local_name

---------------------------------------------------------------------------
(* A pass on a synchronized binding.                                       *)

\* The rows of the table, by the file and the document they bind.
RowKeys(d) == {<<d[i].local_path, d[i].remote_ref>> : i \in LiveIdx(d)}

\* C20: when a pass starts with both trees fully scanned and synchronized,
\* and nothing changes externally and nothing fails during the pass, no
\* step of the pass (remote refresh, local scan, synchronize) changes the
\* server, and none adds or deletes a row of the table.
C20_IdempotentPass ==
    [][(hist.insync /\ pc # "idle" /\ ~pass.disturbed /\ ~pass'.disturbed)
          => (/\ rfs' = rfs
              /\ Len(db') = Len(db)
              /\ RowKeys(db') = RowKeys(db)
              /\ Len(db') = Cardinality(RowKeys(db')))]_vars

\* A pass that started on a synchronized tree of several documents has
\* made its remote refresh and its local scan, undisturbed, and synchronize
\* finds no pending pair.
C20_SecondPassAtRest ==
    /\ pc = "synchronize"
    /\ hist.insync
    /\ ~pass.disturbed
    /\ hist.refresh_done
    /\ hist.local_scans = 1
    /\ Len(db) > 1
    /\ SelectedPending(db) = {}

---------------------------------------------------------------------------
(* A file created locally, uploaded, then deleted locally.                 *)

\* C21: a file that the resolver uploaded as a new document, and that the
\* user deleted afterwards, is gone on both sides at the end of the next
\* pass, when the pass runs without external change and without failure
\* and its synchronize ends on an empty pending list, the document being
\* deletable: the server holds no document of its ref, and the table holds
\* no row of its ref and, at its path, no row but of another document.
C21_CreatedThenDeletedIsGone ==
    [][(/\ pc = "synchronize" /\ pc' = "idle"
        /\ ~pass.disturbed
        /\ SelectedPending(db) = {})
          => \A g \in hist.gone :
                /\ g[2] \notin DOMAIN rfs'
                /\ \A i \in 1..Len(db') :
                      /\ db'[i].remote_ref # g[2]
                      /\ db'[i].local_path = g[1] => db'[i].remote_ref # NoRef]_vars

\* The pass started with an uploaded file deleted on the disk, it ran
\* undisturbed, the resolver has handled one pair, and neither the
\* document nor a row of the file is left.
C21_DeletionPropagated ==
    /\ pc = "synchronize"
    /\ hist.gone # {}
    /\ ~pass.disturbed
    /\ pass.synchronized = 1
    /\ SelectedPending(db) = {}
    /\ \A g \in hist.gone :
          /\ g[2] \notin DOMAIN rfs
          /\ \A i \in 1..Len(db) :
                db[i].remote_ref # g[2] /\ db[i].local_path # g[1]

---------------------------------------------------------------------------
(* A local rename or move, resolved by the move detector.                  *)

\* The step resolves a rename or a move: the pair in hand is row s, the
\* row of a synchronized file that left its path and whose document is
\* where the row knows it, or row t, the unbound row
\* of a file on the disk in a folder that is bound to a document, and after
\* the step a row binds the document of s to the path of t.
LocalMoveResolved(s, t) ==
    /\ pc = "handler"
    /\ hist'.err = "ok"
    /\ pass.pair \in {s, t}
    /\ ~db[s].folderish /\ ~db[t].folderish
    /\ db[s].pair_state = "locally_deleted"
    /\ db[s].remote_ref \in DOMAIN rfs
    /\ rfs[db[s].remote_ref].parent = db[s].remote_parent_ref
    /\ rfs[db[s].remote_ref].name = db[s].remote_name
    /\ db[s].local_path \notin DOMAIN lfs
    /\ db[t].remote_ref = NoRef
    /\ db[t].local_path \in DOMAIN lfs
    /\ \E k \in LiveIdx(db) : /\ db[k].local_path = db[t].local_parent_path
                              /\ db[k].remote_ref # NoRef
    /\ \E k \in 1..Len(db') : /\ db'[k].remote_ref = db[s].remote_ref
                              /\ db'[k].local_path = db[t].local_path

\* One row binds document ref, to path new, and is synchronized; the row
\* that document ref had at path old is gone (path old has one row fewer);
\* no document was made.
OnePairAfterMove(ref, old, new) ==
    /\ Cardinality({k \in 1..Len(db') : db'[k].remote_ref = ref}) = 1
    /\ \A k \in 1..Len(db') :
          db'[k].remote_ref = ref =>
              (db'[k].local_path = new /\ db'[k].pair_state = "synchronized")
    /\ Cardinality({k \in 1..Len(db') : db'[k].local_path = old})
          = Cardinality({k \in 1..Len(db) : db[k].local_path = old}) - 1
    /\ DOMAIN rfs' = DOMAIN rfs

\* Document ref has the name of path new, under the document of the folder
\* of path new.
RemoteFollows(ref, new) ==
    /\ ref \in DOMAIN rfs'
    /\ rfs'[ref].name = Last(new)
    /\ \E k \in 1..Len(db') : /\ db'[k].local_path = Front(new)
                              /\ db'[k].remote_ref = rfs'[ref].parent

RemoteNameFollows(s, t) ==
    rfs'[db[s].remote_ref].name =
        IF /\ db[t].local_name # db[s].local_name
           /\ rfs[db[s].remote_ref].can_rename
        THEN db[t].local_name
        ELSE rfs[db[s].remote_ref].name

\* The document of row s is under the document of the folder of row t if
\* the file was moved, and under the parent it had otherwise.
RemoteParentFollows(s, t) ==
    IF db[t].local_parent_path # db[s].local_parent_path
    THEN \E k \in 1..Len(db') :
            /\ db'[k].local_path = db[t].local_parent_path
            /\ db'[k].remote_ref = rfs'[db[s].remote_ref].parent
    ELSE rfs'[db[s].remote_ref].parent = rfs[db[s].remote_ref].parent

---------------------------------------------------------------------------
(* The resolution of a conflicted pair.                                    *)

\* The pair in hand is conflicted and its handler ends without failure.
ConflictHandled ==
    /\ pc = "handler"
    /\ db[pass.pair].pair_state = "conflicted"
    /\ hist'.err = "ok"

\* The path of the local copy a conflicted file is renamed to.
ConflictPath(path) == Append(Front(path), ConflictedName(Last(path)))

\* The handler step kept both contents of the pair at path bound to ref:
\* the local one under the conflict name, the remote one at path, the pair
\* of ref synchronized at path.
BothContentsKept(path, ref) ==
    /\ ConflictPath(path) \in DOMAIN lfs'
    /\ lfs'[ConflictPath(path)].digest = lfs[path].digest
    /\ path \in DOMAIN lfs'
    /\ lfs'[path].digest = rfs[ref].digest
    /\ \E k \in 1..Len(db') : /\ db'[k].remote_ref = ref
                              /\ db'[k].local_path = path
                              /\ db'[k].pair_state = "synchronized"
    /\ \A k \in 1..Len(db') : db'[k].remote_ref = ref => db'[k].local_path = path

\* The files of the disk that have a conflict name and no row.
UnknownCopies(d, fs) ==
    {path \in DOMAIN fs :
        /\ path # Root
        /\ Last(path) \in {ConflictedName(n) : n \in PlainNames}
        /\ \A k \in 1..Len(d) : d[k].local_path # path}

\* The local scan gives every file of UnknownCopies an unbound pending
\* row, and synchronize_one hands the new row of such a file to its handler
\* as locally_created.
CopiesDetected ==
    /\ (pc = "scan_local" /\ pc' = "synchronize") =>
          \A path \in UnknownCopies(db, lfs) :
              \E k \in 1..Len(db') : /\ db'[k].local_path = path
                                     /\ db'[k].remote_ref = NoRef
                                     /\ db'[k].pair_state # "synchronized"
                                     /\ ~db'[k].in_error
    /\ (pc = "synchronize" /\ pc' = "handler") =>
          \A path \in DOMAIN lfs \ {Root} :
              (/\ Last(path) \in {ConflictedName(n) : n \in PlainNames}
               /\ db[pass'.pair].local_path = path
               /\ db[pass'.pair].remote_ref = NoRef
               /\ db[pass'.pair].local_state = "unknown")
                  => db'[pass'.pair].pair_state = "locally_created"

\* C23 as stated: the resolution of a conflicted pair whose digests differ
\* keeps the local content under the conflict name, downloads the remote
\* content to the original path and leaves the pair of the remote_ref
\* synchronized and bound to the original path; with equal digests the
\* pair is set to synchronized with no file operation; and the local scan
\* of the next pass gives the renamed file a locally_created pair.
C23_ConflictLosesNoContent ==
    /\ [][ConflictHandled =>
            IF db[pass.pair].local_digest = db[pass.pair].remote_digest
            THEN /\ lfs' = lfs /\ rfs' = rfs
                 /\ db'[pass.pair].pair_state = "synchronized"
            ELSE BothContentsKept(db[pass.pair].local_path,
                                  db[pass.pair].remote_ref)]_vars
    /\ [][CopiesDetected]_vars

\* The document ref is still where the row of path knows it: it has the
\* name of the file and its parent is bound to the folder of the file.
DocumentInPlace(path, ref) ==
    /\ rfs[ref].name = Last(path)
    /\ \E k \in LiveIdx(db) : /\ db[k].local_path = Front(path)
                              /\ db[k].remote_ref = rfs[ref].parent

\* The handler step kept both contents of the pair at path bound to ref:
\* the local one under the conflict name, the remote one in a file the
\* one pair of ref is bound to, synchronized.
BothContentsSomewhere(path, ref) ==
    /\ ConflictPath(path) \in DOMAIN lfs'
    /\ lfs'[ConflictPath(path)].digest = lfs[path].digest
    /\ \E k \in 1..Len(db') : /\ db'[k].remote_ref = ref
                              /\ db'[k].pair_state = "synchronized"
                              /\ db'[k].local_path \in DOMAIN lfs'
                              /\ db'[k].local_path # ConflictPath(path)
                              /\ lfs'[db'[k].local_path].digest = rfs[ref].digest
                              /\ \A j \in 1..Len(db') :
                                    db'[j].remote_ref = ref => j = k

\* C23: the same, the remote content being downloaded under the name the
\* document has on the server, in the local folder of its parent: the
\* original path when the document was neither renamed nor moved.
C23_ConflictKeepsBothContents ==
    /\ [][ConflictHandled =>
            IF db[pass.pair].local_digest = db[pass.pair].remote_digest
            THEN /\ lfs' = lfs /\ rfs' = rfs
                 /\ db'[pass.pair].pair_state = "synchronized"
            ELSE /\ BothContentsSomewhere(db[pass.pair].local_path,
                                          db[pass.pair].remote_ref)
                 /\ DocumentInPlace(db[pass.pair].local_path,
                                    db[pass.pair].remote_ref)
                      => BothContentsKept(db[pass.pair].local_path,
                                          db[pass.pair].remote_ref)]_vars
    /\ [][CopiesDetected]_vars

\* The handler of a conflicted pair has ended: the local content is in the
\* file of the conflict name, the remote content at the original path and
\* the pair of the document is synchronized at that path.
C23_ConflictResolvedInPlace ==
    /\ pc = "synchronize"
    /\ hist.err = "ok"
    /\ \E path \in DOMAIN lfs \ {Root} :
          /\ ConflictPath(path) \in DOMAIN lfs
          /\ lfs[ConflictPath(path)].digest # lfs[path].digest
          /\ \A k \in 1..Len(db) : db[k].local_path # ConflictPath(path)
          /\ \E k \in 1..Len(db) : /\ db[k].local_path = path
                                   /\ db[k].remote_ref = hist.ref
                                   /\ db[k].remote_ref \in DOMAIN rfs
                                   /\ rfs[db[k].remote_ref].digest = lfs[path].digest
                                   /\ db[k].pair_state = "synchronized"

---------------------------------------------------------------------------
(* The re-ranking of the rename or move candidates.                        *)

\* The direct children names of row i.
ChildrenNames(i) ==
    {db[k].local_name : k \in {j \in 1..Len(db) :
                                  db[j].local_parent_path = db[i].local_path}}

\* Candidate c is one the re-ranking of the source has to return: any
\* candidate of a file; the candidate of a folder that shares a child name
\* with the source, or is empty like the source.
Related(source, c) ==
    \/ ~db[source].folderish
    \/ ChildrenNames(source) \cap ChildrenNames(c) # {}
    \/ ChildrenNames(source) = {} /\ ChildrenNames(c) = {}

\* The key of candidate c, as a number: the greater number is the greater
\* tuple (jaccard, same_name, same_parent).  The jaccard index of two sets
\* of at most two names is 0, 1/2 or 1: six times the index is a whole
\* number.
RankKey(source, c) ==
    4 * (IF ~db[source].folderish
            \/ (ChildrenNames(source) = {} /\ ChildrenNames(c) = {}) THEN 6
         ELSE (6 * Cardinality(ChildrenNames(source) \cap ChildrenNames(c)))
                 \div Cardinality(ChildrenNames(source) \cup ChildrenNames(c)))
    + 2 * (IF db[source].local_name = db[c].local_name THEN 1 ELSE 0)
    + (IF db[source].local_parent_path = db[c].local_parent_path THEN 1 ELSE 0)

\* C24: the re-ranking returns exactly the candidates whose jaccard index
\* with the source is not 0 (all the candidates of a file; for a folder,
\* those that share a direct child name with the source or are empty like
\* it), each once, in the descending order of (jaccard, same_name,
\* same_parent); so that a folder with the children names of the source
\* comes before every other and is chosen when there is one, and a file
\* with the name of the source is chosen over files of the same parent.
C24_RerankedByRelatedness ==
    pc = "reranked" =>
        /\ Range(hist.ranked)
              = {c \in Range(pass.candidates) : Related(pass.pair, c)}
        /\ \A k, l \in 1..Len(hist.ranked) :
              /\ hist.ranked[k] = hist.ranked[l] => k = l
              /\ k < l => RankKey(pass.pair, hist.ranked[k])
                             >= RankKey(pass.pair, hist.ranked[l])
        /\ \A c \in Range(pass.candidates) :
              /\ (/\ db[pass.pair].folderish
                  /\ ChildrenNames(c) = ChildrenNames(pass.pair))
                    => ChildrenNames(hist.ranked[1]) = ChildrenNames(pass.pair)
              /\ (/\ ~db[pass.pair].folderish
                  /\ db[c].local_name = db[pass.pair].local_name)
                    => db[hist.ranked[1]].local_name = db[pass.pair].local_name

\* The re-ranking has pruned a folder of other children names, and put the
\* folder of the same children names before one that shares some of them
\* and has the name of the source.
C24_FolderRanked ==
    /\ pc = "reranked"
    /\ db[pass.pair].folderish
    /\ Len(pass.candidates) = 3
    /\ Len(hist.ranked) = 2
    /\ ChildrenNames(hist.ranked[1]) = ChildrenNames(pass.pair)
    /\ ChildrenNames(hist.ranked[2]) # ChildrenNames(pass.pair)
    /\ db[hist.ranked[1]].local_name # db[pass.pair].local_name
    /\ db[hist.ranked[2]].local_name = db[pass.pair].local_name
    /\ \E c \in Range(pass.candidates) \ Range(hist.ranked) :
          /\ ChildrenNames(c) # {}
          /\ ChildrenNames(c) \cap ChildrenNames(pass.pair) = {}

\* C25: the re-ranking is deterministic on tied keys: the list returned is
\* the only one the re-ranking can return for the source and the list of
\* candidates, and two candidates of equal keys are in it in the order
\* they have in the list of candidates.
C25_StableOnTies ==
    pc = "reranked" =>
        /\ Reranked(db, pass.pair, pass.candidates) = {hist.ranked}
        /\ \A k, l \in 1..Len(hist.ranked) :
              (/\ k < l
               /\ RankKey(pass.pair, hist.ranked[k])
                     = RankKey(pass.pair, hist.ranked[l]))
                 => PosIn(pass.candidates, hist.ranked[k])
                       < PosIn(pass.candidates, hist.ranked[l])

\* The re-ranking of a file has returned two candidates of equal keys in
\* the order opposite to the one they were given in.
C25_TieReordered ==
    /\ pc = "reranked"
    /\ ~db[pass.pair].folderish
    /\ Len(pass.candidates) = 2
    /\ Len(hist.ranked) = 2
    /\ RankKey(pass.pair, hist.ranked[1]) = RankKey(pass.pair, hist.ranked[2])
    /\ hist.ranked[1] = pass.candidates[2]
    /\ hist.ranked[2] = pass.candidates[1]

---------------------------------------------------------------------------
(* The choice of the pending pair in synchronize.                          *)

\* The position of the pair to take in the list pending: the first row
\* that has a local_path, the first row of the list when none has one.
FirstWithLocalPath(d, pending) ==
    IF \E k \in 1..Len(pending) : d[pending[k]].local_path # NoPath
    THEN Min({k \in 1..Len(pending) : d[pending[k]].local_path # NoPath})
    ELSE 1

\* C26: in each iteration of synchronize the pair handed to the resolver
\* is the first pair of the pending list that has a local_path when there
\* is one, the first pair of the list otherwise, and the index stays
\* within the list.
C26_FirstWithLocalPathTaken ==
    [][(pc = "synchronize" /\ pc' = "handler") =>
          /\ \A pending \in PendingOrders(db) :
                /\ PendingIterator(db, pending, 1) \in 1..Len(pending)
                /\ PendingIterator(db, pending, 1)
                      = FirstWithLocalPath(db, pending)
          /\ \E pending \in PendingOrders(db) :
                pass'.pair = pending[FirstWithLocalPath(db, pending)]]_vars

\* synchronize has handed to the resolver a pair that has a local_path and
\* comes second in a pending list that starts with a pair without one.
C26_SecondPairTaken ==
    /\ pc = "handler"
    /\ db[pass.pair].local_path # NoPath
    /\ \E pending \in PendingOrders(db) :
          /\ Len(pending) >= 2
          /\ db[pending[1]].local_path = NoPath
          /\ pending[2] = pass.pair

---------------------------------------------------------------------------
(* A locally deleted pair that is no move.                                 *)

\* The rows of rows and those whose local or remote parent is one of them.
WithChildren(d, rows) ==
    rows \cup {k \in LiveIdx(d) : \E j \in rows :
                  \/ d[j].local_path # NoPath
                     /\ d[k].local_parent_path = d[j].local_path
                  \/ d[j].remote_ref # NoRef
                     /\ d[k].remote_parent_ref = d[j].remote_ref}

RECURSIVE Branch(_, _)
\* The rows of rows and all their descendants.
Branch(d, rows) ==
    IF WithChildren(d, rows) = rows THEN rows
    ELSE Branch(d, WithChildren(d, rows))

\* The pair in hand is locally deleted, bound to a document and has no
\* move candidate, and its handler ends without failure.
DeletionHandled ==
    /\ pc = "handler"
    /\ db[pass.pair].pair_state = "locally_deleted"
    /\ db[pass.pair].remote_ref \in DOMAIN rfs
    /\ BestCandidates(db, pass.pair) = {}
    /\ hist'.err = "ok"

\* No row of the new table is row k of the old one.
Purged(k) ==
    \A j \in 1..Len(db') :
        \/ db'[j].local_path # db[k].local_path
        \/ db'[j].remote_ref # db[k].remote_ref

\* Row k of the old table is in the new one with its local side cleared
\* and the states of a document to download.
MarkedRemotelyCreated(k) ==
    /\ Len(db') = Len(db)
    /\ db'[k].remote_ref = db[k].remote_ref
    /\ db'[k].local_path = NoPath
    /\ db'[k].local_digest = NoDigest
    /\ db'[k].local_state = "unknown"
    /\ db'[k].remote_state = "created"

\* C27: the handler of a locally deleted pair that is bound to a document
\* and is no move deletes the document and purges the pair with all its
\* descendants when the document reports can_delete; otherwise it changes
\* nothing on the server and leaves the pair and every descendant with the
\* local side cleared and the states (unknown, created).
C27_DeletedOrMarkedCreated ==
    [][DeletionHandled =>
          IF rfs[db[pass.pair].remote_ref].can_delete
          THEN /\ db[pass.pair].remote_ref \notin DOMAIN rfs'
               /\ \A k \in Branch(db, {pass.pair}) : Purged(k)
          ELSE /\ rfs' = rfs
               /\ \A k \in Branch(db, {pass.pair}) :
                     MarkedRemotelyCreated(k)]_vars

\* The rows of rows and those whose local parent is one of them.
WithLocalChildren(d, rows) ==
    rows \cup {k \in LiveIdx(d) : \E j \in rows :
                  /\ d[j].local_path # NoPath
                  /\ d[k].local_parent_path = d[j].local_path}

RECURSIVE LocalBranch(_, _)
\* The rows of rows and all their descendants on the local side.
LocalBranch(d, rows) ==
    IF WithLocalChildren(d, rows) = rows THEN rows
    ELSE LocalBranch(d, WithLocalChildren(d, rows))

\* C27: the same, the descendants that are marked being those the table
\* knows on the local side (through local_parent_path); a descendant known
\* by its remote side only is left as it is.
C27_DeletedOrLocalBranchMarked ==
    [][DeletionHandled =>
          IF rfs[db[pass.pair].remote_ref].can_delete
          THEN /\ db[pass.pair].remote_ref \notin DOMAIN rfs'
               /\ \A k \in Branch(db, {pass.pair}) : Purged(k)
          ELSE /\ rfs' = rfs
               /\ \A k \in LocalBranch(db, {pass.pair}) :
                     MarkedRemotelyCreated(k)
               /\ \A k \in LiveIdx(db) \ LocalBranch(db, {pass.pair}) :
                     db'[k] = db[k]]_vars

\* The handler of a locally deleted folder that cannot be deleted on the
\* server has ended: the folder and its file are to download again, and a
\* document of the folder that was never downloaded has the states it had.
C27_BranchMarkedCreated ==
    /\ pc = "synchronize"
    /\ hist.err = "ok"
    /\ hist.ref \in DOMAIN rfs
    /\ ~rfs[hist.ref].can_delete
    /\ \E i, j, k \in 1..Len(db) :
          /\ db[i].remote_ref = hist.ref
          /\ db[i].pair_state = "remotely_created"
          /\ db[i].local_path = NoPath
          /\ db[j].remote_parent_ref = hist.ref
          /\ db[j].pair_state = "remotely_created"
          /\ db[j].local_path = NoPath
          /\ db[j].local_digest = NoDigest
          /\ db[k].remote_parent_ref = hist.ref
          /\ db[k].pair_state = "unknown"
          /\ db[k].local_path = NoPath

---------------------------------------------------------------------------
(* A pair created locally in a folder that takes no child.                 *)

\* The row of the folder the pair in hand is in, 0 when there is none.
ParentInHand ==
    IF \E k \in LiveIdx(db) : db[k].local_path = db[pass.pair].local_parent_path
    THEN Min({k \in LiveIdx(db) :
                 db[k].local_path = db[pass.pair].local_parent_path})
    ELSE 0

\* The pair in hand is locally created and no move, its parent pair does
\* not permit the creation of a child, and its handler ends.
CreationRefused ==
    /\ pc = "handler"
    /\ db[pass.pair].pair_state = "locally_created"
    /\ BestCandidates(db, pass.pair) = {}
    /\ ParentInHand # 0
    /\ db[ParentInHand].remote_can_create_child # Stored(TRUE)
    /\ pc' = "synchronize"

\* C28 as stated: the handler of a locally created pair, file or folder,
\* whose parent pair does not permit child creation creates nothing on the
\* server, sets the pair to synchronized and sets its
\* remote_can_create_child to false.
C28_RefusedPairFlagged ==
    [][CreationRefused =>
          /\ hist'.err = "ok"
          /\ rfs' = rfs
          /\ db'[pass.pair].pair_state = "synchronized"
          /\ ~db'[pass.pair].in_error
          /\ db'[pass.pair].remote_can_create_child = Stored(FALSE)]_vars

\* C28: the same, remote_can_create_child being set to false on the pair
\* of a folder; the pair of a file keeps the value it had.
C28_RefusedFolderFlagged ==
    [][CreationRefused =>
          /\ hist'.err = "ok"
          /\ rfs' = rfs
          /\ db'[pass.pair].pair_state = "synchronized"
          /\ ~db'[pass.pair].in_error
          /\ db'[pass.pair].remote_can_create_child
                = IF db[pass.pair].folderish THEN Stored(FALSE)
                  ELSE db[pass.pair].remote_can_create_child]_vars

\* The handler of a folder created in a folder that takes no child has
\* ended: the pair is synchronized, bound to no document and flagged.
C28_FolderLeftLocal ==
    /\ pc = "synchronize"
    /\ hist.err = "ok"
    /\ pass.synchronized = 1
    /\ \E i, j \in 1..Len(db) :
          /\ db[i].folderish
          /\ db[i].local_path \in DOMAIN lfs
          /\ db[i].remote_ref = NoRef
          /\ db[i].pair_state = "synchronized"
          /\ db[i].remote_can_create_child = Stored(FALSE)
          /\ db[j].local_path = db[i].local_parent_path
          /\ db[j].remote_ref \in DOMAIN rfs
          /\ ~rfs[db[j].remote_ref].can_create_child
    /\ \A ref \in DOMAIN rfs : rfs[ref].mtime = 0

---------------------------------------------------------------------------
(* A creation whose parent pair is missing or not bound.                   *)

\* The row bound to the parent of the document of the pair in hand, 0 when
\* there is none.
RemoteParentInHand ==
    IF \E k \in LiveIdx(db) : db[k].remote_ref = db[pass.pair].remote_parent_ref
    THEN Min({k \in LiveIdx(db) :
                 db[k].remote_ref = db[pass.pair].remote_parent_ref})
    ELSE 0

\* The pair in hand is to be created on the server, or on the disk, and
\* its parent pair is missing or not bound on that side.
ParentNotBound ==
    /\ pc = "handler"
    /\ \/ /\ db[pass.pair].pair_state = "locally_created"
          /\ BestCandidates(db, pass.pair) = {}
          /\ (ParentInHand = 0 \/ db[ParentInHand].remote_ref = NoRef)
       \/ /\ db[pass.pair].pair_state = "remotely_created"
          /\ db[pass.pair].remote_ref \in DOMAIN rfs
          /\ (RemoteParentInHand = 0
                \/ db[RemoteParentInHand].local_path = NoPath)

\* C29: the creation handler of a pair whose parent pair is missing, or
\* not bound on the side where the node is to be created, raises: nothing
\* is created on either side, the states of the pair are unchanged, and
\* synchronize blacklists the pair.
C29_OrphanCreationRaises ==
    [][(ParentNotBound /\ pc' = "synchronize") =>
          /\ hist'.err \in {"exception", "http"}
          /\ lfs' = lfs /\ rfs' = rfs
          /\ Len(db') = Len(db)
          /\ db'[pass.pair] = [db[pass.pair] EXCEPT !.in_error = TRUE]]_vars

\* The handler of a file created locally in a folder that is itself to be
\* created on the server has returned: the file is synchronized and bound
\* to no document, and its folder is still pending; every folder of the
\* server takes children and nothing has changed on the server.
C29_OrphanFileLeftLocal ==
    /\ pc = "synchronize"
    /\ hist.err = "ok"
    /\ \E i, j \in 1..Len(db) :
          /\ ~db[i].folderish
          /\ db[i].local_path \in DOMAIN lfs
          /\ db[i].remote_ref = NoRef
          /\ db[i].pair_state = "synchronized"
          /\ ~db[i].in_error
          /\ db[j].local_path = db[i].local_parent_path
          /\ db[j].remote_ref = NoRef
          /\ db[j].pair_state \in {"unknown", "locally_created"}
          /\ ~db[j].in_error
    /\ rlog = <<>>
    /\ \A ref \in DOMAIN rfs : rfs[ref].can_create_child

---------------------------------------------------------------------------
(* A local file in use while its pair is resolved.                         *)

\* The handler of the pair in hand, _synchronize_remotely_deleted or
\* _synchronize_remotely_modified, swallows an I/O error of the local
\* client and returns.
IOErrorSwallowed ==
    /\ pc = "handler"
    /\ db[pass.pair].pair_state \in {"remotely_deleted", "remotely_modified"}
    /\ db[pass.pair].local_path \in DOMAIN lfs
    /\ hist'.err = "ioerror"

\* C30: when the local client fails with a file-in-use I/O error in the
\* handler of a remotely deleted or remotely modified pair, the handler
\* returns, no row is deleted, the pair is neither synchronized nor
\* blacklisted and so stays pending, and synchronize does not hand the pair
\* to the resolver again before it returns.
C30_DelayedToNextLoop ==
    /\ [][IOErrorSwallowed =>
            /\ pc' = "synchronize"
            /\ Len(db') = Len(db)
            /\ db'[pass.pair].pair_state = db[pass.pair].pair_state
            /\ ~db'[pass.pair].in_error]_vars
    /\ [][(pc = "synchronize" /\ pc' = "handler") =>
            db'[pass'.pair].remote_ref \notin hist.delayed]_vars

\* synchronize has handed to the resolver, for the second time in one
\* call, a remotely deleted pair whose file was in use the first time.
C30_RetriedInSameCall ==
    /\ pc = "handler"
    /\ pass.synchronized = 1
    /\ hist.attempts = 2
    /\ hist.err = "ioerror"
    /\ ~hist.neterr
    /\ db[pass.pair].remote_ref \in hist.delayed
    /\ db[pass.pair].pair_state = "remotely_deleted"
    /\ db[pass.pair].local_path \in DOMAIN lfs
    /\ ~db[pass.pair].in_error

---------------------------------------------------------------------------
(* The content update of a remotely modified file.                         *)

\* C31: a step of the handler of a remotely modified pair that is to
\* download the content, whether it ends well or fails, leaves a file at
\* the local_path of the pair, with the content it had or with the content
\* of the document.
C31_ContentReplacedAtomically ==
    [][(pc = "handler" /\ StreamsContent(db, lfs, pass.pair)) =>
          /\ db[pass.pair].local_path \in DOMAIN lfs'
          /\ \/ lfs'[db[pass.pair].local_path].digest
                   = lfs[db[pass.pair].local_path].digest
             \/ /\ db[pass.pair].remote_ref \in DOMAIN rfs
                /\ lfs'[db[pass.pair].local_path].digest
                      = rfs[db[pass.pair].remote_ref].digest]_vars

\* The handler of a remotely modified pair has returned after the local
\* file was deleted and before the download was renamed into place: the
\* pair is as it was, its folder is on the disk and no file is at its
\* local_path.
C31_FileMissingAfterFailure ==
    /\ pc = "synchronize"
    /\ hist.err = "ioerror"
    /\ \E i \in 1..Len(db) :
          /\ db[i].pair_state = "remotely_modified"
          /\ db[i].remote_ref \in hist.delayed
          /\ db[i].remote_ref \in DOMAIN rfs
          /\ rfs[db[i].remote_ref].digest # db[i].local_digest
          /\ db[i].local_parent_path \in DOMAIN lfs
          /\ db[i].local_path \notin DOMAIN lfs

---------------------------------------------------------------------------
(* The sweep of the local scan.                                            *)

\* A pair registered under a folder of the disk whose path is not in the
\* listing of that folder.
NotListed(d, fs, j) ==
    /\ ~d[j].dead
    /\ d[j].local_parent_path \in LocalFolders(fs)
    /\ d[j].local_path \notin DOMAIN fs

\* A pair that is not listed, or a descendant pair of one, n levels down
\* at most.
RECURSIVE SweptUnder(_, _, _, _)
SweptUnder(d, fs, j, n) ==
    \/ NotListed(d, fs, j)
    \/ /\ n > 0
       /\ ~d[j].dead
       /\ \E k \in LiveIdx(d) :
            /\ d[k].local_path # NoPath
            /\ d[k].local_path = d[j].local_parent_path
            /\ SweptUnder(d, fs, k, n - 1)

\* The rows of the table t that stand for the row p: same path, same
\* document.
SameRow(t, p) ==
    {k \in 1..Len(t) : /\ t[k].local_path = p.local_path
                       /\ t[k].remote_ref = p.remote_ref}

\* A local scan of the pass has run to its end in this step.
LocalScanDone ==
    /\ pc = "scan_local"
    /\ hist'.local_scans > hist.local_scans
    /\ pc' = "synchronize"

\* C32: after a local scan, every pair under a scanned folder whose path
\* is not in the listing, and every descendant pair of it, is gone from
\* the table when it has no remote_ref and has the local_state 'deleted'
\* when it has one; a pair whose path is listed stays in the table and is
\* not marked 'deleted'; and every pair the scan has made stands for a
\* file of the disk and is not marked.
C32_SweepOfScannedFolder ==
    [][LocalScanDone =>
         /\ \A j \in 1..Len(db) :
              SweptUnder(db, lfs, j, MaxDepth) =>
                IF db[j].remote_ref = NoRef
                THEN SameRow(db', db[j]) = {}
                ELSE /\ SameRow(db', db[j]) # {}
                     /\ \A k \in SameRow(db', db[j]) :
                          db'[k].local_state = "deleted"
         /\ \A j \in LiveIdx(db) :
              db[j].local_path \in DOMAIN lfs =>
                /\ SameRow(db', db[j]) # {}
                /\ db[j].local_state # "deleted" =>
                     \E k \in SameRow(db', db[j]) :
                        db'[k].local_state # "deleted"
         /\ \A k \in 1..Len(db') :
              (/\ db'[k].local_path # NoPath
               /\ \A j \in LiveIdx(db) :
                    db[j].local_path # db'[k].local_path)
                => /\ db'[k].local_path \in DOMAIN lfs
                   /\ db'[k].local_state # "deleted"]_vars

\* A local scan has run to its end on a table that held a pair with a
\* document whose folder is gone from the disk, and a pair below it: both
\* are marked 'deleted', and a pair made by the scan is in the table.
C32_SweptWithDescendant ==
    /\ pc = "synchronize"
    /\ pass.local_scan_is_done
    /\ \E i, j \in 1..Len(db) :
         /\ db[i].local_path \notin DOMAIN lfs
         /\ db[i].local_parent_path = Root
         /\ db[i].remote_ref # NoRef
         /\ db[i].local_state = "deleted"
         /\ db[j].local_parent_path = db[i].local_path
         /\ db[j].remote_ref # NoRef
         /\ db[j].local_state = "deleted"

---------------------------------------------------------------------------
(* The alignment of the scanners.                                          *)

\* The pair j can take the file of child_info met in the folder of the
\* pair i: it has a document and no file, lies under the document of i,
\* has the folderish flag of the file and a name that matches.
LocalAlignable(d, i, child_info, j) ==
    /\ ~d[j].dead
    /\ d[j].local_path = NoPath
    /\ d[j].local_name = NoName
    /\ d[j].remote_name # NoName
    /\ d[i].remote_ref # NoRef
    /\ d[j].remote_parent_ref = d[i].remote_ref
    /\ d[j].folderish = child_info.folderish
    /\ name_match(Last(child_info.path), d[j].remote_name)

\* The pair j can take the document of child_info met in the folder of the
\* pair i: it has a file and no document, lies in the folder of i, has the
\* folderish flag of the document and a name that matches.
RemoteAlignable(d, i, child_info, j) ==
    /\ ~d[j].dead
    /\ d[j].remote_ref = NoRef
    /\ d[j].remote_name = NoName
    /\ d[j].local_name # NoName
    /\ d[i].local_path # NoPath
    /\ d[j].local_parent_path = d[i].local_path
    /\ d[j].folderish = child_info.folderish
    /\ name_match(d[j].local_name, child_info.name)

\* The choice f of the local scan for the file of child_info, which has
\* no pair of its own.
LocalChoiceRight(d, i, child_info, f) ==
    /\ f # 0 => LocalAlignable(d, i, child_info, f)
    /\ f = 0 => \A j \in 1..Len(d) : ~LocalAlignable(d, i, child_info, j)
    /\ (/\ f # 0
        /\ ~child_info.folderish
        /\ \E j \in 1..Len(d) : /\ LocalAlignable(d, i, child_info, j)
                                /\ d[j].remote_digest = child_info.digest)
          => d[f].remote_digest = child_info.digest

\* The choice f of the remote scan for the document of child_info, which
\* has no pair of its own.
RemoteChoiceRight(d, i, child_info, f) ==
    /\ f # 0 => RemoteAlignable(d, i, child_info, f)
    /\ f = 0 => \A j \in 1..Len(d) : ~RemoteAlignable(d, i, child_info, j)
    /\ (/\ f # 0
        /\ ~child_info.folderish
        /\ \E j \in 1..Len(d) : /\ RemoteAlignable(d, i, child_info, j)
                                /\ d[j].local_digest = child_info.digest)
          => d[f].local_digest = child_info.digest

\* The files of the disk that have no pair, each with the pair of its
\* folder.
UnpairedFiles(d, fs) ==
    {<<i, c>> \in LiveIdx(d) \X DOMAIN fs :
        /\ c # Root
        /\ d[i].local_path = Front(c)
        /\ \A j \in LiveIdx(d) : d[j].local_path # c}

\* The documents of the server that have no pair, each with the pair of
\* its folder.
UnpairedDocuments(d, r) ==
    {<<i, c>> \in LiveIdx(d) \X DOMAIN r :
        /\ d[i].remote_ref # NoRef
        /\ d[i].remote_ref = r[c].parent
        /\ \A j \in LiveIdx(d) : d[j].remote_ref # c}

\* A local scan has bound the file at c, which had no pair, to the pair k:
\* a pair made by the scan leaves no pair behind that could have taken the
\* file, and a pair that was there had a document and no file, the
\* document lies under the document of the folder of c, and it has the
\* folderish flag and a name that matches.
LocalBinding(d, t, fs, c, k) ==
    IF t[k].remote_ref = NoRef
    THEN \A i, j \in 1..Len(t) :
            t[i].local_path = Front(c)
               => ~LocalAlignable(t, i, LocalGetInfo(fs, c), j)
    ELSE \E i \in 1..Len(t), j \in LiveIdx(d) :
            /\ t[i].local_path = Front(c)
            /\ d[j].remote_ref = t[k].remote_ref
            /\ d[j].local_path = NoPath
            /\ d[j].remote_parent_ref = t[i].remote_ref
            /\ d[j].folderish = fs[c].folderish
            /\ name_match(Last(c), d[j].remote_name)

\* A remote scan has bound the document of child_info, which had no pair,
\* to the pair k: the same, with the sides exchanged.
RemoteBinding(d, t, child_info, k) ==
    IF t[k].local_path = NoPath
    THEN \A i, j \in 1..Len(t) :
            t[i].remote_ref = child_info.parent_uid
               => ~RemoteAlignable(t, i, child_info, j)
    ELSE \E i \in 1..Len(t), j \in LiveIdx(d) :
            /\ t[i].remote_ref = child_info.parent_uid
            /\ d[j].local_path = t[k].local_path
            /\ d[j].remote_ref = NoRef
            /\ d[j].local_parent_path = t[i].local_path
            /\ d[j].folderish = child_info.folderish
            /\ name_match(d[j].local_name, child_info.name)

\* The incremental update has come, in this step, to the event of a
\* document that has no pair and whose folder has one.
UnknownChildMet ==
    /\ pc = "update_remote_states"
    /\ pc' \in {"update_remote_states", "checkpoint"}
    /\ summary' = Tail(summary)
    /\ Head(summary).fileSystemItemId \notin refreshed
    /\ Head(summary).fileSystemItem.exists
    /\ \A j \in LiveIdx(db) :
          db[j].remote_ref # Head(summary).fileSystemItemId
    /\ \E i \in LiveIdx(db) :
          db[i].remote_ref = Head(summary).fileSystemItem.parent_uid

\* A remote scan of the pass has run to its end in this step.
RemoteScanDone ==
    /\ pc = "scan_remote"
    /\ pc' = "checkpoint"
    /\ hist'.refresh_done

\* C33: for a file or a document that has no pair of its own, the scanner
\* chooses a pair of the other side that has no counterpart, lies under
\* the corresponding parent, has the same folderish flag and a matching
\* name, for a file one of equal digest when there is one, and no pair when
\* there is none; after a scan every file or document met has a pair, an
\* existing one that could take it or a new one when none was left; a pair
\* with a local name and a remote name is never chosen.
C33_AlignmentOfScanners ==
    [][/\ \A u \in UnpairedFiles(db, lfs) :
            LocalChoiceRight(db, u[1], LocalGetInfo(lfs, u[2]),
                LocalChildPair(db, u[1], LocalGetInfo(lfs, u[2])))
       /\ \A u \in UnpairedDocuments(db, rfs) :
            RemoteChoiceRight(db, u[1], RemoteGetInfo(rfs, u[2]),
                RemoteChildMatch(db, u[1], RemoteGetInfo(rfs, u[2])))
       /\ LocalScanDone =>
            \A c \in DOMAIN lfs :
               /\ \E k \in 1..Len(db') : db'[k].local_path = c
               /\ (\A j \in LiveIdx(db) : db[j].local_path # c) =>
                     \A k \in 1..Len(db') :
                        db'[k].local_path = c
                           => LocalBinding(db, db', lfs, c, k)
       /\ RemoteScanDone =>
            \A c \in DOMAIN rfs :
               /\ \E k \in 1..Len(db') : db'[k].remote_ref = c
               /\ (\A j \in LiveIdx(db) : db[j].remote_ref # c) =>
                     \A k \in 1..Len(db') :
                        db'[k].remote_ref = c
                           => RemoteBinding(db, db', RemoteGetInfo(rfs, c), k)
       /\ UnknownChildMet =>
            /\ \E k \in 1..Len(db') :
                  db'[k].remote_ref = Head(summary).fileSystemItemId
            /\ \A k \in 1..Len(db') :
                  db'[k].remote_ref = Head(summary).fileSystemItemId
                     => RemoteBinding(db, db', Head(summary).fileSystemItem,
                                      k)]_vars

---------------------------------------------------------------------------
(* The inputs of the alignment: a bound root, one or two documents in it,  *)
(* one or two files in the local folder, and the pairs of one side only.   *)
(* Two documents of one folder can have the same name.                     *)

\* The names of the files of the local folder.
AlignNames == {"a", "b", "a__1"}

\* The remote trees: a file r1 and a file or a folder r2 under the root.
AlignDocs ==
    {RemoteRootOnly @@ ("r1" :> Writable(RootRef, n1, FALSE, g1))
                    @@ ("r2" :> Writable(RootRef, n2, f2,
                                         IF f2 THEN NoDigest ELSE g2)) :
        <<n1, n2>> \in PlainNames \X PlainNames,
        <<g1, g2>> \in Digests \X Digests, f2 \in BOOLEAN}

\* The local trees: one or two files or folders under the root.
AlignFiles ==
    {LocalPut(LocalPut(InitLocalTree, <<n1>>, FALSE, g1, 0),
              <<n2>>, f2, IF f2 THEN NoDigest ELSE g2, 0) :
        <<n1, n2>> \in AlignNames \X AlignNames,
        <<g1, g2>> \in Digests \X Digests, f2 \in BOOLEAN}

\* The pairs of the documents of the root, as a remote scan makes them.
RemoteOnlyPairs(r) ==
    [k \in 1..Len(RemoteGetChildrenInfo(r, RootRef)) |->
        NewPair(NoLocalInfo, RemoteGetChildrenInfo(r, RootRef)[k])]

\* The pairs of the files of the root, as a local scan makes them.
LocalOnlyPairs(fs) ==
    [k \in 1..Len(LocalGetChildrenInfo(fs, Root)) |->
        NewPair(LocalGetChildrenInfo(fs, Root)[k], NoRemoteInfo)]

\* A scan is about to meet the nodes of one side with the pairs of the
\* other side in the table.
InitAlign ==
    /\ rfs \in AlignDocs
    /\ lfs \in AlignFiles
    /\ \/ /\ pc = "scan_local"
          /\ db = <<BoundRootPair(lfs, rfs)>> \o RemoteOnlyPairs(rfs)
       \/ /\ pc = "scan_remote"
          /\ db = <<BoundRootPair(lfs, rfs)>> \o LocalOnlyPairs(lfs)
    /\ binding = [exists |-> TRUE, last_sync_date |-> 0,
                  last_root_definitions |-> RootRef]
    /\ rlog = <<>>
    /\ now = 0
    /\ dirty = FALSE
    /\ pass = NoPass
    /\ summary = <<>>
    /\ refreshed = {}
    /\ hist = NoHist
    /\ InitLock

NextAlign == ScanLocal \/ ScanRemote

SpecAlign == InitAlign /\ [][NextAlign]_vars

\* A local scan has run on a table with two documents of one name and
\* different digests that had no file, and a file of that name with the
\* digest of the second: the pair of the second document has the file, the
\* pair of the first has none.
C33_DigestPreferred ==
    /\ pc = "synchronize"
    /\ pass.local_scan_is_done
    /\ \E j, k \in 1..Len(db) :
         /\ j < k
         /\ db[j].remote_name = db[k].remote_name
         /\ db[j].remote_parent_ref = db[k].remote_parent_ref
         /\ db[j].remote_digest # db[k].remote_digest
         /\ db[j].local_path = NoPath
         /\ db[k].local_path \in DOMAIN lfs
         /\ db[k].local_digest = db[k].remote_digest
         /\ \A c \in DOMAIN lfs : c # Root => c = db[k].local_path

---------------------------------------------------------------------------
(* The commits of synchronize_one.                                         *)

\* The table is the committed one: no change of the session is pending, no
\* deleted row is left in it.
Committed(d, pending) == ~pending /\ \A i \in 1..Len(d) : ~d[i].dead

\* C34: when synchronize_one comes to the handler of the pair, the table
\* with the refreshed pair is committed, and when synchronize_one has
\* returned, the table the handler has left is committed: the rows it
\* deleted are gone, no change is pending.
C34_CommittedAroundHandler ==
    [][/\ (pc = "synchronize" /\ pc' = "handler")
            => (/\ Committed(db', dirty')
                /\ db' = SyncRefreshed(db, lfs, rfs, pass'.pair))
       /\ (pc = "handler" /\ pc' = "synchronize" /\ hist'.err \in {"ok", "ioerror"})
            => Committed(db', dirty')]_vars

\* synchronize_one has returned from a handler that changed the table and
\* the disk or the server: the pair it was called for was pending and is
\* synchronized in the committed table.
C34_HandlerChangesCommitted ==
    /\ pc = "synchronize"
    /\ hist.err = "ok"
    /\ pass.synchronized > 0
    /\ hist.made # {}
    /\ Committed(db, dirty)
    /\ \E i \in 1..Len(db) : /\ db[i].remote_ref \in hist.made
                             /\ db[i].pair_state = "synchronized"

---------------------------------------------------------------------------
(* The local scan of a pass.                                               *)

\* The number of local scans of the pass that ends in this step.
ScansOfEndingPass ==
    IF pc = "synchronize" THEN hist.local_scans ELSE hist'.local_scans

\* C35: a pass that returns without unbinding the server has run the local
\* scan once, whether or not a network error occurred: no step of a pass
\* makes a second scan, the branch that handles a network error scans when
\* the pass has not and does not when it has.  An exception that is not a
\* network error leaves the pass where it is raised: after one scan, or
\* after none when the remote refresh raises it.
C35_OneLocalScanPerPass ==
    [][/\ hist'.local_scans <= 1
       /\ (pc # "idle" /\ pc' = "idle" /\ binding'.exists)
             => ScansOfEndingPass = 1
       /\ (pc # "crashed" /\ pc' = "crashed" /\ binding'.exists)
             => (ScansOfEndingPass = 1
                   <=> pc \notin {"scan_remote", "update_remote_states"})
       /\ (pc = "network_error" /\ pc' # "network_error")
             => /\ hist'.local_scans = 1
                /\ hist'.local_scans > hist.local_scans
                      <=> ~pass.local_scan_is_done]_vars

\* A pass has ended whose fetch of the change summary raised a network
\* error: its except branch has scanned the local folder, once.
C35_ScannedAfterFailedFetch ==
    /\ pc = "idle"
    /\ binding.exists
    /\ ~hist.fetched
    /\ ~pass.local_scan_is_done
    /\ hist.local_scans = 1

---------------------------------------------------------------------------
(* A call of synchronize without limit (limit=None), on the tables a pass  *)
(* leaves after its scans: a synchronized binding on which the server      *)
(* deleted or modified a document, or the user deleted or modified a       *)
(* file.  A file that another process holds open stays in use during the   *)
(* call: its deletion fails as often as it is tried.                       *)

\* The counters of a call are not counted beyond this value.
MaxCounted == 3

\* The edits of the server between two passes.
ResolveRemoteEdits(r) ==
    {r, RemoteDelete(r, "r2"), RemoteDelete(r, "r1"),
     [r EXCEPT !["r2"].digest = "d2", !["r2"].mtime = 1]}

\* The edits of the user between two passes.
ResolveLocalEdits(fs) ==
    {fs, LocalDelete(fs, <<"a", "b">>),
     LocalPut(fs, <<"a", "b">>, FALSE, "d2", 1),
     LocalPut(fs, <<"b">>, FALSE, "d1", 1)}

\* synchronize(limit=None) is called after the scans of the edited trees.
InitResolve ==
    /\ \E r \in SyncedRemoteTrees :
         /\ rfs \in ResolveRemoteEdits(r)
         /\ lfs \in ResolveLocalEdits(SyncedLocalTree(r))
         /\ db = scan_local(scan_remote(SyncedTable(SyncedLocalTree(r), r),
                                        rfs).db, lfs).db
    /\ binding = [exists |-> TRUE, last_sync_date |-> 0,
                  last_root_definitions |-> RootRef]
    /\ rlog = <<>>
    /\ now = 1
    /\ dirty = FALSE
    /\ pc = "synchronize"
    /\ pass = [NoPass EXCEPT !.local_scan_is_done = TRUE]
    /\ summary = <<>>
    /\ refreshed = {}
    /\ hist = [NoHist EXCEPT !.local_scans = 1, !.refresh_done = TRUE]
    /\ InitLock

\* One turn of the while loop of synchronize, limit being None: a pending
\* pair is picked and synchronize_one refreshes it (lines 1016-1045).
ResolveRefresh ==
    /\ pc = "synchronize"
    /\ \E i \in SelectedPending(db) :
        /\ db' = SyncRefreshed(db, lfs, rfs, i)
        /\ pass' = [pass EXCEPT !.pair = i]
        /\ hist' = [hist EXCEPT
                      !.attempts = Min({@ + 1, MaxCounted}),
                      !.failed = 0,
                      !.agreed = IF SidesAgree(db'[i], lfs, rfs)
                                 THEN db'[i].pair_state ELSE "none",
                      !.ref = db'[i].remote_ref]
    /\ pc' = "handler"
    /\ UNCHANGED <<dirty, binding, summary, refreshed>>
    /\ EnvUnchanged
    /\ UNCHANGED lockVars

\* local_client.delete fails with an IOError because the file is in use:
\* the except clause of line 655 or of line 793 logs it, the handler
\* returns and synchronize counts the pair (lines 1047-1048).
ResolveDelayed ==
    /\ pc = "handler"
    /\ DeletesLocally(db, lfs, pass.pair)
    /\ pc' = "synchronize"
    /\ pass' = [pass EXCEPT !.pair = 0,
                            !.synchronized = Min({@ + 1, MaxCounted}),
                            !.disturbed = TRUE]
    /\ hist' = [hist EXCEPT !.err = "ioerror", !.failed = 0,
                            !.delayed = @ \cup {db[pass.pair].remote_ref}]
    /\ UNCHANGED <<db, dirty, binding, summary, refreshed>>
    /\ EnvUnchanged
    /\ UNCHANGED lockVars

\* len(pending) == 0: break, and synchronize returns (lines 1027-1028).
ResolveReturns ==
    /\ pc = "synchronize"
    /\ SelectedPending(db) = {}
    /\ pc' = "returned"
    /\ UNCHANGED <<db, dirty, binding, pass, summary, refreshed, hist>>
    /\ EnvUnchanged
    /\ UNCHANGED lockVars

NextResolve ==
    \/ ResolveRefresh
    \/ SyncHandle
    \/ ResolveDelayed
    \/ ResolveReturns

\* The call is running: it has a step to take.
Resolving == pc \in {"synchronize", "handler"}

\* The call goes on as long as it is running: synchronize returns when
\* nothing is pending, and otherwise it takes the next pair and the handler
\* it calls comes to an end.  Every step of the call changes pc, and a step
\* is possible whenever the call is running: the weak fairness of the steps
\* that take and handle a pair is stated by that.
SpecResolve ==
    /\ InitResolve
    /\ [][NextResolve]_vars
    /\ WF_vars(ResolveReturns)
    /\ ([]<><<pc' # pc>>_vars \/ []<>(~Resolving))

\* C36 as stated: every call of synchronize comes to its end, whatever the
\* limit, none included: it returns or an exception leaves it.
C36_SynchronizeTerminates == <>(~Resolving)

\* A call of synchronize without limit has counted MaxCounted turns and
\* hands to the resolver, once more, a remotely deleted pair whose file was
\* in use in a turn before: the pair is as it was, pending and not
\* blacklisted.
C36_DelayedPairAgain ==
    /\ pc = "handler"
    /\ pass.synchronized >= MaxCounted
    /\ hist.err = "ioerror"
    /\ db[pass.pair].remote_ref \in hist.delayed
    /\ db[pass.pair].pair_state = "remotely_deleted"
    /\ db[pass.pair].local_path \in DOMAIN lfs
    /\ ~db[pass.pair].in_error
    /\ Range(PendingRows(db)) = {pass.pair}

---------------------------------------------------------------------------
(* The result of the move detector.                                        *)

\* _detect_local_move_or_rename(doc_pair): the source of the result, for
\* the best candidate best (0: the result is (None, None)).
DetectedSource(d, i, best) ==
    IF d[i].pair_state = "locally_deleted" THEN i ELSE best

\* _detect_local_move_or_rename(doc_pair): the target of the result.
DetectedTarget(d, i, best) ==
    IF d[i].pair_state = "locally_deleted" THEN best ELSE i

\* The results the detector can give for row i of d are all well formed:
\* nothing, or two rows of the table that differ, the source deleted
\* locally.
WellFormedDetection(d, i) ==
    \A best \in BestOf(d, i) :
        \/ best = 0
        \/ /\ DetectedSource(d, i, best) \in LiveIdx(d)
           /\ DetectedTarget(d, i, best) \in LiveIdx(d)
           /\ DetectedSource(d, i, best) # DetectedTarget(d, i, best)
           /\ d[DetectedSource(d, i, best)].local_state = "deleted"

\* C37: whatever row of the table the move detector is called for, it
\* returns (None, None) or a source and a target that are both rows of the
\* table and are two different rows, and the source has local_state
\* deleted: never one of the two alone, never one row twice.
C37_DetectorResultWellFormed ==
    \A i \in LiveIdx(db) : WellFormedDetection(db, i)

\* The handler is about to run for a locally created folder, and the
\* detector has two deleted folders to choose from: it returns one of them
\* as the source, with the pair as the target.
C37_SourceAmongTwoDeleted ==
    /\ pc = "handler"
    /\ db[pass.pair].pair_state = "locally_created"
    /\ Cardinality(BestOf(db, pass.pair)) >= 1
    /\ 0 \notin BestOf(db, pass.pair)
    /\ Len(MoveCandidates(db, pass.pair)) >= 2

---------------------------------------------------------------------------
(* The remote creations of the locally_created handler.                    *)

\* The parent pair of _synchronize_locally_created (lines 686-689): a
\* position, or 0.
ParentPairOf(d, i) ==
    QueryFirst(d, LAMBDA p : p.local_path = d[i].local_parent_path)

\* The step is the handler of a locally created pair.
LocallyCreatedHandled ==
    /\ pc = "handler"
    /\ pc' # "handler"
    /\ db[pass.pair].pair_state = "locally_created"

\* The documents the step has made on the server.
MadeByStep == DOMAIN rfs' \ DOMAIN rfs

\* The handler called make_folder or stream_file: a document was made, or
\* the call failed on the network, no other remote call being possible.
CreationIssued ==
    \/ MadeByStep # {}
    \/ BestCandidates(db, pass.pair) = {} /\ hist'.err = "neterr"

\* C38: when the handler of a locally created pair issues a remote
\* creation, the parent pair exists, has a remote ref and permits the
\* creation of children, and what is made is one document, under that ref.
C38_CreationUnderBoundParent ==
    [][(LocallyCreatedHandled /\ CreationIssued) =>
          /\ ParentPairOf(db, pass.pair) # 0
          /\ db[ParentPairOf(db, pass.pair)].remote_ref # NoRef
          /\ db[ParentPairOf(db, pass.pair)].remote_can_create_child
                = Stored(TRUE)
          /\ Cardinality(MadeByStep) <= 1
          /\ \A ref \in MadeByStep :
                rfs'[ref].parent = db[ParentPairOf(db, pass.pair)].remote_ref
      ]_vars

\* The handler has made a document for a locally created pair: the document
\* lies under the document of the parent pair, which permits it.
C38_MadeUnderParent ==
    /\ pc = "synchronize"
    /\ hist.err = "ok"
    /\ \E i \in LiveIdx(db) :
          /\ db[i].remote_ref \in hist.made
          /\ db[i].remote_ref \in DOMAIN rfs
          /\ db[i].pair_state = "synchronized"
          /\ ParentPairOf(db, i) # 0
          /\ db[ParentPairOf(db, i)].remote_ref = rfs[db[i].remote_ref].parent
          /\ db[ParentPairOf(db, i)].remote_can_create_child = Stored(TRUE)

---------------------------------------------------------------------------
(* The remote parent paths after a remote move.                            *)

\* The first row of d that holds ref (0: none).
RowOfRef(d, ref) ==
    QueryFirst(d, LAMBDA p : p.remote_ref = ref)

\* The rows of d below row i by the remote_parent_ref links, n levels down
\* at most.
RECURSIVE RemoteDescendantRows(_, _, _)
RemoteDescendantRows(d, i, n) ==
    IF n = 0 \/ i = 0 \/ d[i].remote_ref = NoRef THEN {}
    ELSE UNION {{c} \cup RemoteDescendantRows(d, c, n - 1) :
                   c \in {j \in LiveIdx(d) :
                             d[j].remote_parent_ref = d[i].remote_ref}}

\* The step is the handler of a remotely modified pair that finds a remote
\* move and ends well: _update_remote_parent_path_recursive(doc_pair,
\* doc_pair.remote_parent_path) has returned (line 636).
RemoteMoveHandled ==
    /\ pc = "handler"
    /\ pc' = "synchronize"
    /\ hist'.err = "ok"
    /\ db[pass.pair].pair_state = "remotely_modified"
    /\ ~StreamsContent(db, lfs, pass.pair)
    /\ ~(db[pass.pair].remote_digest # db[pass.pair].local_digest
         /\ db[pass.pair].local_digest # NoDigest)
    /\ is_remote_move(db, pass.pair).is_move

\* The row of the moved pair after the step.
MovedRow == RowOfRef(db', db[pass.pair].remote_ref)

\* The remote parent path of row c of d is the path of its parent row
\* followed by the ref of its parent row.
PathFollowsParent(d, c) ==
    /\ RowOfRef(d, d[c].remote_parent_ref) # 0
    /\ d[c].remote_parent_path =
          Append(d[RowOfRef(d, d[c].remote_parent_ref)].remote_parent_path,
                 d[RowOfRef(d, d[c].remote_parent_ref)].remote_ref)

\* C39 as stated: after _update_remote_parent_path_recursive(pair, path)
\* the pair has the remote_parent_path path, and every descendant of the
\* pair by the remote_parent_ref links has the remote_parent_path of its
\* parent followed by the remote_ref of its parent.
C39_ParentPathsMaterialized ==
    [][RemoteMoveHandled =>
          /\ MovedRow # 0
          /\ db'[MovedRow].remote_parent_path
                = db[pass.pair].remote_parent_path
          /\ \A c \in RemoteDescendantRows(db', MovedRow, MaxDepth + 1) :
                PathFollowsParent(db', c)
      ]_vars

\* A folder was moved on the server and its pair was handled: the pair of
\* a document inside it has a remote_parent_path that ends with its own
\* ref, and not with the ref of the folder.
C39_ChildPathEndsWithOwnRef ==
    /\ pc = "synchronize"
    /\ hist.err = "ok"
    /\ RowOfRef(db, hist.ref) # 0
    /\ db[RowOfRef(db, hist.ref)].pair_state = "synchronized"
    /\ \E c \in RemoteDescendantRows(db, RowOfRef(db, hist.ref), 1) :
          /\ db[c].remote_parent_path =
                Append(db[RowOfRef(db, hist.ref)].remote_parent_path,
                       db[c].remote_ref)
          /\ ~PathFollowsParent(db, c)

---------------------------------------------------------------------------
(* The local paths after a remote renaming or a remote move.               *)

\* The step is the handler of a remotely modified pair that finds a
\* renaming or a move and ends well:
\* _local_rename_with_descendant_states(doc_pair, previous_local_path,
\* updated_info.path) has returned (lines 650-652).
RenameHandled ==
    /\ pc = "handler"
    /\ pc' = "synchronize"
    /\ hist'.err = "ok"
    /\ db[pass.pair].pair_state = "remotely_modified"
    /\ ~(db[pass.pair].remote_digest # db[pass.pair].local_digest
         /\ db[pass.pair].local_digest # NoDigest)
    /\ \/ is_remote_move(db, pass.pair).is_move
       \/ db[pass.pair].remote_name # db[pass.pair].local_name

\* previous_local_path of the call.
OldPath == db[pass.pair].local_path

\* updated_info.path of the call: where the move and the renaming have put
\* the file or the folder.
NewPath ==
    RemoteRenameApplied(
        RemoteMoveApplied(db, lfs, pass.pair,
                          is_remote_move(db, pass.pair).is_move,
                          is_remote_move(db, pass.pair).new_parent_pair),
        pass.pair, db[pass.pair].remote_name # db[pass.pair].local_name,
        RemoteGetInfo(rfs, db[pass.pair].remote_ref).name).path

\* The rows that were under previous_local_path before the call.
RowsUnderOldPath ==
    {c \in LiveIdx(db) : /\ c # pass.pair
                         /\ db[c].local_path # NoPath
                         /\ Len(db[c].local_path) > Len(OldPath)
                         /\ IsPrefix(OldPath, db[c].local_path)}

\* The row that held the parent path of row c before the call (0: none).
LocalParentRow(c) ==
    QueryFirst(db, LAMBDA p : p.local_path = db[c].local_parent_path)

\* Row t is row p, but for the remote_parent_path, which the handler of a
\* move writes with _update_remote_parent_path_recursive before it comes
\* to the local paths.
SameButRemotePath(t, p) ==
    [t EXCEPT !.remote_parent_path = p.remote_parent_path] = p

===========================================================================
